---- MODULE Spec2Model ----
(***************************************************************************)
(* Chunked parallel session analysis of Fit_The_Exit: the scheduler        *)
(* (gemini_main.analyze_website_session_parallel), the per-chunk agent     *)
(* pipeline (graph.workflow and the agents package), the retry wrapper     *)
(* (analyze_chunk_with_retry) and the cross-chunk aggregator               *)
(* (aggregate_with_llm); and, each under a specification of its own, the   *)
(* rate limiter of utils.mistral_client (LimiterSpec, the clock observed    *)
(* at the instants around every half window), the JSON extractor of         *)
(* utils.helpers (ExtractSpec), one call of analyze_chunk with every        *)
(* start_from (ChunkSpec), the retry wrapper with every error message       *)
(* (WrapperSpec), the worker pool with more chunks than workers (PoolSpec), *)
(* the column projection of utils.helpers (FilterSpec), one call of        *)
(* query_mistral (ClientSpec) and the rate limiter called for ever under   *)
(* fairness (LimiterFairSpec).                                             *)
(*                                                                         *)
(* Representation.  A model text is a sequence of tokens; a token is a     *)
(* tuple of strings: <<"{">>, <<"}">>, <<"prose">> or a member <<k, v>> of *)
(* a JSON object.  A decoded mapping is a function from key strings to     *)
(* value strings: "v" stands for a usable decoded value, "[]" for an empty *)
(* list, "null" for JSON null (Python None).  Python None in an            *)
(* object-valued field is the record None; in a string-valued field it is  *)
(* the string "None".  A session record is an opaque identifier.  The      *)
(* message log of a state is represented by its length.                    *)
(***************************************************************************)
EXTENDS Integers, Sequences, FiniteSets, TLC

\* ------------------------------------------------------------------ bounds
MaxSessions == 5
MaxChunkSize == 4

\* ------------------------------------------------------- program constants
CHUNK_SIZE == 20
MAX_WORKERS == 4
SAMPLE_CHUNK_SIZE == 2
SAMPLE_MAX_WORKERS == 3
max_retries == 3
BACKOFF_BASE == 5

None == [none |-> TRUE]
NoneStr == "None"
JsonNull == "null"
EmptyList == "[]"
EmptyDict == "{}"
EmptyMapping == [k \in {} |-> "v"]

Get(m, k, d) == IF k \in DOMAIN m THEN m[k] ELSE d

\* Python truthiness of a decoded value
Falsy(v) == v \in {JsonNull, EmptyList, EmptyDict, NoneStr}

Min(S) == CHOOSE x \in S : \A y \in S : x <= y
Max(S) == CHOOSE x \in S : \A y \in S : x >= y

\* ------------------------------------------------------------- extraction
OpenBrace == <<"{">>
CloseBrace == <<"}">>
Prose == <<"prose">>

\* str.find / str.rfind, 0-based, -1 when absent
find(text, tok) ==
    LET S == {i \in 1..Len(text) : text[i] = tok}
    IN IF S = {} THEN -1 ELSE Min(S) - 1

rfind(text, tok) ==
    LET S == {i \in 1..Len(text) : text[i] = tok}
    IN IF S = {} THEN -1 ELSE Max(S) - 1

\* text[a:b] for 0 <= a; the end is clamped to the length
slice(text, a, b) == SubSeq(text, a + 1, IF b < Len(text) THEN b ELSE Len(text))

\* json.loads succeeds on "{" member* "}" (flat object)
Decodable(s) ==
    /\ Len(s) >= 2
    /\ s[1] = OpenBrace
    /\ s[Len(s)] = CloseBrace
    /\ \A i \in 2..(Len(s) - 1) : Len(s[i]) = 2

\* a repeated key keeps its last value
json_loads(s) ==
    LET idx == 2..(Len(s) - 1)
        keys == {s[i][1] : i \in idx}
    IN [k \in keys |-> s[Max({i \in idx : s[i][1] = k})][2]]

\* the outcome of a block of code: a value, or an exception
Value(v) == [raised |-> FALSE, value |-> v]
Raised(e) == [raised |-> TRUE, value |-> e]
JSONDecodeError == "JSONDecodeError"

\* lines 18-26, the body of the try statement
extract_json_body(s) ==
    LET json_start == find(s, OpenBrace)
        json_end == rfind(s, CloseBrace) + 1
    IN IF json_start # -1 /\ json_end # -1
       THEN LET json_str == slice(s, json_start, json_end)
            IN IF Decodable(json_str)
               THEN Value(json_loads(json_str))
               ELSE Raised(JSONDecodeError)
       ELSE Value(EmptyMapping)

\* variant: no except clause, an exception of the body leaves the function
extract_json_call_unhandled(s) == extract_json_body(s)

\* lines 15-30: the body under "except Exception"
extract_json_call(s) ==
    LET r == extract_json_body(s)
    IN IF r.raised THEN Value(EmptyMapping) ELSE r

extract_json_from_text(s) == extract_json_call(s).value

\* -------------------------------------------------- completion capability
RateLimitMarker == "Requests rate limit exceeded"
RateLimitError == {RateLimitMarker}
OtherError == {"connection error"}
ApiErrors == {RateLimitError, OtherError}

Returns(t) == [raises |-> FALSE, text |-> t, error |-> {}]
Raises(e) == [raises |-> TRUE, text |-> <<>>, error |-> e]

\* "x in error_msg": an error message is the set of marker substrings it holds
Contains(msg, marker) == marker \in msg

\* raise Exception(f"<name> agent error: {str(e)}")
AgentError(name, e) == e \cup {name}

\* ------------------------------------------------------------ chunk state
AgentState(info, sessions, recs, traffic, journey, device, report, agent, messages) ==
    [website_info |-> info,
     all_sessions |-> sessions,
     column_recommendations |-> recs,
     traffic_engagement_analysis |-> traffic,
     user_journey_analysis |-> journey,
     device_location_analysis |-> device,
     final_report |-> report,
     current_agent |-> agent,
     messages |-> messages]

WebsiteType(type) == [type |-> type]

Ok(state) == [raised |-> FALSE, state |-> state, error |-> {}]
Fail(state, e) == [raised |-> TRUE, state |-> state, error |-> e]

\* a None or a JSON null where a list or mapping is subscripted or iterated
TypeError == {"TypeError"}

\* ------------------------------------------------------------------ agents
DefaultColumns ==
    [traffic_engagement_columns |-> "default_traffic_engagement_columns",
     user_journey_columns |-> "default_user_journey_columns",
     device_location_columns |-> "default_device_location_columns"]

\* variant: each list falls back to its own default
column_recommendation_agent_per_list(state, outcome) ==
    LET s1 == [state EXCEPT !.current_agent = "Column Recommendation Agent"]
    IN IF outcome.raises
       THEN Fail(s1, AgentError("traffic_engagement", outcome.error))
       ELSE LET extracted == extract_json_from_text(outcome.text)
                recs ==
                    [k \in DOMAIN DefaultColumns |->
                        IF Falsy(Get(extracted, k, JsonNull))
                        THEN DefaultColumns[k]
                        ELSE extracted[k]]
            IN Ok([s1 EXCEPT !.column_recommendations = recs,
                             !.messages = @ + 1])

column_recommendation_agent(state, outcome) ==
    LET s1 == [state EXCEPT !.current_agent = "Column Recommendation Agent"]
    IN IF outcome.raises
       THEN Fail(s1, AgentError("traffic_engagement", outcome.error))
       ELSE LET extracted == extract_json_from_text(outcome.text)
                column_data ==
                    IF extracted = EmptyMapping
                       \/ Falsy(Get(extracted, "traffic_engagement_columns", JsonNull))
                    THEN DefaultColumns
                    ELSE extracted
                recs ==
                    [traffic_engagement_columns |->
                         Get(column_data, "traffic_engagement_columns", EmptyList),
                     user_journey_columns |->
                         Get(column_data, "user_journey_columns", EmptyList),
                     device_location_columns |->
                         Get(column_data, "device_location_columns", EmptyList)]
            IN Ok([s1 EXCEPT !.column_recommendations = recs,
                             !.messages = @ + 1])

\* state["column_recommendations"][key] followed by the projection loop
ColumnsUnusable(state, key) ==
    \/ state.column_recommendations = None
    \/ state.column_recommendations[key] = JsonNull

\* variant: the marker is set when the analysis is stored, after the call
traffic_engagement_agent_marker_late(state, outcome) ==
    LET s1 == [state EXCEPT !.current_agent = "Traffic and Engagement Analysis Agent"]
    IN IF ColumnsUnusable(state, "traffic_engagement_columns")
       THEN Fail(state, AgentError("traffic_engagement", TypeError))
       ELSE IF outcome.raises
       THEN Fail(state, AgentError("traffic_engagement", outcome.error))
       ELSE LET analysis_data == extract_json_from_text(outcome.text)
                analysis ==
                    [summary |-> Get(analysis_data, "summary", "No summary provided"),
                     key_metrics |-> Get(analysis_data, "key_metrics", EmptyDict),
                     findings |-> Get(analysis_data, "findings", EmptyList)]
            IN Ok([s1 EXCEPT !.traffic_engagement_analysis = analysis,
                             !.messages = @ + 1])

traffic_engagement_agent(state, outcome) ==
    LET s1 == [state EXCEPT !.current_agent = "Traffic and Engagement Analysis Agent"]
    IN IF ColumnsUnusable(state, "traffic_engagement_columns")
       THEN Fail(s1, AgentError("traffic_engagement", TypeError))
       ELSE IF outcome.raises
       THEN Fail(s1, AgentError("traffic_engagement", outcome.error))
       ELSE LET analysis_data == extract_json_from_text(outcome.text)
                analysis ==
                    [summary |-> Get(analysis_data, "summary", "No summary provided"),
                     key_metrics |-> Get(analysis_data, "key_metrics", EmptyDict),
                     findings |-> Get(analysis_data, "findings", EmptyList)]
            IN Ok([s1 EXCEPT !.traffic_engagement_analysis = analysis,
                             !.messages = @ + 1])

\* variant: the journey stage puts its own name into its error
user_journey_agent_own_name(state, outcome) ==
    LET s1 == [state EXCEPT !.current_agent = "User Journey and Navigation Agent"]
    IN IF ColumnsUnusable(state, "user_journey_columns")
       THEN Fail(s1, AgentError("user_journey", TypeError))
       ELSE IF outcome.raises
       THEN Fail(s1, AgentError("user_journey", outcome.error))
       ELSE LET analysis_data == extract_json_from_text(outcome.text)
                analysis ==
                    [summary |-> Get(analysis_data, "summary", "No summary provided"),
                     journey_maps |-> Get(analysis_data, "journey_maps", EmptyList),
                     path_patterns |-> Get(analysis_data, "path_patterns", EmptyList),
                     conversion_insights |->
                         Get(analysis_data, "conversion_insights", EmptyList)]
            IN Ok([s1 EXCEPT !.user_journey_analysis = analysis,
                             !.messages = @ + 1])

user_journey_agent(state, outcome) ==
    LET s1 == [state EXCEPT !.current_agent = "User Journey and Navigation Agent"]
    IN IF ColumnsUnusable(state, "user_journey_columns")
       THEN Fail(s1, AgentError("traffic_engagement", TypeError))
       ELSE IF outcome.raises
       THEN Fail(s1, AgentError("traffic_engagement", outcome.error))
       ELSE LET analysis_data == extract_json_from_text(outcome.text)
                analysis ==
                    [summary |-> Get(analysis_data, "summary", "No summary provided"),
                     journey_maps |-> Get(analysis_data, "journey_maps", EmptyList),
                     path_patterns |-> Get(analysis_data, "path_patterns", EmptyList),
                     conversion_insights |->
                         Get(analysis_data, "conversion_insights", EmptyList)]
            IN Ok([s1 EXCEPT !.user_journey_analysis = analysis,
                             !.messages = @ + 1])

\* variant: the device stage logs before its completion call
device_location_agent_logs_first(state, outcome) ==
    LET s1 == [state EXCEPT !.current_agent = "Device and Location Analysis Agent",
                            !.messages = @ + 1]
    IN IF ColumnsUnusable(state, "device_location_columns")
       THEN Fail(s1, AgentError("traffic_engagement", TypeError))
       ELSE IF outcome.raises
       THEN Fail(s1, AgentError("traffic_engagement", outcome.error))
       ELSE LET analysis_data == extract_json_from_text(outcome.text)
                analysis ==
                    [summary |-> Get(analysis_data, "summary", "No summary provided"),
                     device_breakdown |-> Get(analysis_data, "device_breakdown", EmptyDict),
                     location_insights |->
                         Get(analysis_data, "location_insights", EmptyList),
                     browser_stats |-> Get(analysis_data, "browser_stats", EmptyDict)]
            IN Ok([s1 EXCEPT !.device_location_analysis = analysis])

device_location_agent(state, outcome) ==
    LET s1 == [state EXCEPT !.current_agent = "Device and Location Analysis Agent"]
    IN IF ColumnsUnusable(state, "device_location_columns")
       THEN Fail(s1, AgentError("traffic_engagement", TypeError))
       ELSE IF outcome.raises
       THEN Fail(s1, AgentError("traffic_engagement", outcome.error))
       ELSE LET analysis_data == extract_json_from_text(outcome.text)
                analysis ==
                    [summary |-> Get(analysis_data, "summary", "No summary provided"),
                     device_breakdown |-> Get(analysis_data, "device_breakdown", EmptyDict),
                     location_insights |->
                         Get(analysis_data, "location_insights", EmptyList),
                     browser_stats |-> Get(analysis_data, "browser_stats", EmptyDict)]
            IN Ok([s1 EXCEPT !.device_location_analysis = analysis,
                             !.messages = @ + 1])

ErrorShapedReport ==
    [key_performance_metrics |-> "error_metrics",
     core_issues |-> "error_issues",
     user_behavior_insights |-> "error_insights",
     device_location_data |-> "error_device_data",
     prioritized_action_plan |-> EmptyList]

orchestrator_agent(state, outcome) ==
    LET s1 == [state EXCEPT !.current_agent = "Orchestrator Agent"]
    IN IF outcome.raises
       THEN Fail(s1, AgentError("orchestrator", outcome.error))
       ELSE LET response_json == extract_json_from_text(outcome.text)
                final_report ==
                    IF response_json = EmptyMapping
                    THEN ErrorShapedReport
                    ELSE [key_performance_metrics |->
                              Get(response_json, "key_performance_metrics", EmptyList),
                          core_issues |-> Get(response_json, "core_issues", EmptyList),
                          user_behavior_insights |->
                              Get(response_json, "user_behavior_insights", EmptyList),
                          device_location_data |->
                              Get(response_json, "device_location_data", EmptyList),
                          prioritized_action_plan |->
                              Get(response_json, "prioritized_action_plan", EmptyList)]
            IN Ok([s1 EXCEPT !.final_report = final_report,
                             !.messages = @ + 1])

\* ------------------------------------------------------------------ graphs
START == "__start__"
END == "__end__"
ColumnNode == "column_recommendation_node"
TrafficNode == "traffic_engagement_node"
JourneyNode == "user_journey_node"
DeviceNode == "device_location_node"
OrchestratorNode == "orchestrator_node"
Nodes == {ColumnNode, TrafficNode, JourneyNode, DeviceNode, OrchestratorNode}
AllStages == <<ColumnNode, TrafficNode, JourneyNode, DeviceNode, OrchestratorNode>>

\* variant: the journey stage is wired before the traffic stage
build_graph_swapped ==
    {<<START, ColumnNode>>, <<ColumnNode, JourneyNode>>,
     <<JourneyNode, TrafficNode>>, <<TrafficNode, DeviceNode>>,
     <<DeviceNode, OrchestratorNode>>, <<OrchestratorNode, END>>}

\* a compiled graph is its set of edges
build_graph ==
    {<<START, ColumnNode>>, <<ColumnNode, TrafficNode>>,
     <<TrafficNode, JourneyNode>>, <<JourneyNode, DeviceNode>>,
     <<DeviceNode, OrchestratorNode>>, <<OrchestratorNode, END>>}

\* variant: the journey entry point is wired to the traffic stage
build_custom_graph_from_traffic(start_from) ==
    (CASE start_from = "traffic_engagement" ->
              {<<START, TrafficNode>>, <<TrafficNode, JourneyNode>>}
       [] start_from = "user_journey" ->
              {<<START, TrafficNode>>, <<TrafficNode, JourneyNode>>}
       [] start_from = "device_location" -> {<<START, DeviceNode>>}
       [] start_from = "orchestrator" -> {<<START, OrchestratorNode>>}
       [] OTHER -> {<<START, ColumnNode>>, <<ColumnNode, TrafficNode>>})
    \cup {<<JourneyNode, DeviceNode>>, <<DeviceNode, OrchestratorNode>>,
          <<OrchestratorNode, END>>}

\* lines 88-119: the entry point and the edges added for start_from
build_custom_graph(start_from) ==
    (CASE start_from = "traffic_engagement" ->
              {<<START, TrafficNode>>, <<TrafficNode, JourneyNode>>}
       [] start_from = "user_journey" -> {<<START, JourneyNode>>}
       [] start_from = "device_location" -> {<<START, DeviceNode>>}
       [] start_from = "orchestrator" -> {<<START, OrchestratorNode>>}
       [] OTHER -> {<<START, ColumnNode>>, <<ColumnNode, TrafficNode>>})
    \cup {<<JourneyNode, DeviceNode>>, <<DeviceNode, OrchestratorNode>>,
          <<OrchestratorNode, END>>}

\* the node an edge leads to; a node without an outgoing edge ends the run
Successor(app, node) ==
    IF \E e \in app : e[1] = node
    THEN (CHOOSE e \in app : e[1] = node)[2]
    ELSE END

RunNode(node, state, outcome) ==
    CASE node = ColumnNode -> column_recommendation_agent(state, outcome)
      [] node = TrafficNode -> traffic_engagement_agent(state, outcome)
      [] node = JourneyNode -> user_journey_agent(state, outcome)
      [] node = DeviceNode -> device_location_agent(state, outcome)
      [] node = OrchestratorNode -> orchestrator_agent(state, outcome)

\* ------------------------------------------------------------ model texts
ObjectText(members) == <<Prose, OpenBrace>> \o members \o <<CloseBrace>>
NoBraceText == <<Prose>>

ColumnKeys == <<"traffic_engagement_columns", "user_journey_columns",
                "device_location_columns">>
TrafficKeys == <<"summary", "key_metrics", "findings">>
JourneyKeys == <<"summary", "journey_maps", "path_patterns", "conversion_insights">>
DeviceKeys == <<"summary", "device_breakdown", "location_insights", "browser_stats">>
ReportKeys == <<"key_performance_metrics", "core_issues", "user_behavior_insights",
                "device_location_data", "prioritized_action_plan">>

RequiredKeys(node) ==
    CASE node = ColumnNode -> ColumnKeys
      [] node = TrafficNode -> TrafficKeys
      [] node = JourneyNode -> JourneyKeys
      [] node = DeviceNode -> DeviceKeys
      [] node = OrchestratorNode -> ReportKeys

\* the response that carries every required key with a usable value
FullText(keys) == ObjectText([i \in 1..Len(keys) |-> <<keys[i], "v">>])

\* responses of the completion capability in scheduler runs
SchedTexts ==
    [n \in Nodes |->
        IF n = ColumnNode
        THEN {NoBraceText, FullText(RequiredKeys(n))}
        ELSE {FullText(RequiredKeys(n))}]

Outcomes(texts) == {Returns(t) : t \in texts} \cup {Raises(e) : e \in ApiErrors}

\* -------------------------------------------------------------- partition
\* variant: the range stops before a last chunk shorter than chunk_size
Chunks_full_only(sessions, chunk_size) ==
    LET total_sessions == Len(sessions)
        starts == {i \in 0..(total_sessions - chunk_size) : i % chunk_size = 0}
        nth(k) == CHOOSE i \in starts : Cardinality({j \in starts : j < i}) = k - 1
    IN [k \in 1..Cardinality(starts) |-> slice(sessions, nth(k), nth(k) + chunk_size)]

\* [sessions_json[i:i + chunk_size] for i in range(0, total_sessions, chunk_size)]
Chunks(sessions, chunk_size) ==
    LET total_sessions == Len(sessions)
        starts == {i \in 0..(total_sessions - 1) : i % chunk_size = 0}
        nth(k) == CHOOSE i \in starts : Cardinality({j \in starts : j < i}) = k - 1
    IN [k \in 1..Cardinality(starts) |-> slice(sessions, nth(k), nth(k) + chunk_size)]

\* ------------------------------------------------------------------ state
VARIABLES
    website_type,            \* input: website category label
    sessions_json,           \* input: ordered session list
    sample,                  \* input: sample-mode flag
    chunk_size,              \* sessions per chunk (lines 348-352)
    pc,                      \* position of the calling thread in the entry point
    chunks,                  \* the partition, indexed by chunk_id
    job,                     \* per chunk_id: its analyze_chunk run and retry wrapper;
                             \* trace, failed, response, slept and invocations record
                             \* what the run executed, where it last failed, the last
                             \* completion text, the backoff sleeps and the number of
                             \* analyze_chunk calls; finished_at is the position of
                             \* its future among the finished futures
    column_recommendations,  \* the recommendation taken from the primary chunk
    all_chunk_results,       \* harvested chunk states
    harvested,               \* chunk ids whose future the collection loop consumed
    aggregated_results,      \* what aggregate_with_llm returned
    final_state,             \* what the final orchestration returned
    files,                   \* files written
    returned,                \* the pair returned by the entry point
    error,                   \* the exception caught at the outermost boundary
    gemini_responses         \* what each aggregation completion call returned

\* the RateLimiter of utils.mistral_client and the threads calling it
VARIABLES
    max_calls_per_minute,    \* constructor argument
    tokens_per_minute,       \* constructor argument
    call_timestamps,         \* self.call_timestamps
    token_usage,             \* self.token_usage, pairs (timestamp, tokens)
    lock,                    \* holder of self.lock
    clock,                   \* time.time(), in seconds
    caller,                  \* per thread: position in wait_if_needed, its
                             \* estimated_tokens, the time its sleep ends and the
                             \* oldest_timestamp it computed at line 37
    last_return              \* when the last call returned and what it had waited for

\* one call of utils.helpers.extract_json_from_text
VARIABLES
    text_arg,                \* the argument
    extract_outcome          \* the outcome of the call

limiter == <<max_calls_per_minute, tokens_per_minute, call_timestamps, token_usage,
             lock, clock, caller, last_return>>

\* one call of utils.helpers.filter_session_data
VARIABLES
    sessions_arg,            \* the argument sessions
    columns_arg,             \* the argument columns
    filtered_sessions        \* what the call returned

\* one call of utils.mistral_client.query_mistral
VARIABLES
    query                    \* position in the call, the acquisitions and completion
                             \* calls it made, what the completion call did and how
                             \* the call ended

extraction == <<text_arg, extract_outcome>>

projection == <<sessions_arg, columns_arg, filtered_sessions>>

client == <<query>>

\* the components that are checked on their own
components == <<limiter, extraction, projection, client>>

vars == <<website_type, sessions_json, sample, chunk_size, pc, chunks, job,
          column_recommendations, all_chunk_results, harvested,
          aggregated_results, final_state, files, returned, error, gemini_responses,
          components>>

inputs == <<website_type, sessions_json, sample, chunk_size>>

WebsiteTypes == {"real estate", "news/blog"}

\* website_type.replace(' ', '_')
ReportStem(label) == IF label = "real estate" THEN "real_estate" ELSE label

\* open(name, "w") fails when the name lies in a directory that does not exist
Unwritable(stem) == stem = "news/blog"

Sessions(n) == [i \in 1..n |-> i]
SessionValues == {1, 2}

\* ------------------------------------------------------------ rate limiter
WINDOW == 60
DEFAULT_MAX_CALLS == 10
DEFAULT_TOKENS == 20000

Threads == {"worker_1", "worker_2"}
NoThread == "no_thread"

IdleCaller == [pc |-> "idle", estimated_tokens |-> 0, wake |-> 0, oldest |-> -1]

\* RateLimiter.__init__
LimiterNew(max_calls, tokens) ==
    /\ max_calls_per_minute = max_calls
    /\ tokens_per_minute = tokens
    /\ call_timestamps = <<>>
    /\ token_usage = <<>>
    /\ lock = NoThread
    /\ clock = 0
    /\ caller = [t \in Threads |-> IdleCaller]
    /\ last_return = None

\* no call of the extractor is under way
ExtractionIdle ==
    /\ text_arg = <<>>
    /\ extract_outcome = None

\* no call of the column projection is under way
ProjectionIdle ==
    /\ sessions_arg = <<>>
    /\ columns_arg = <<>>
    /\ filtered_sessions = None

\* no call of query_mistral is under way
ClientIdle == query = None

\* no call of a helper is under way
HelpersIdle ==
    /\ ExtractionIdle
    /\ ProjectionIdle
    /\ ClientIdle

\* the module-level rate_limiter and no call of a helper
ComponentsIdle ==
    /\ LimiterNew(DEFAULT_MAX_CALLS, DEFAULT_TOKENS)
    /\ HelpersIdle

\* everything but the inputs
InitRun ==
    /\ pc = "start"
    /\ chunks = <<>>
    /\ job = <<>>
    /\ column_recommendations = None
    /\ all_chunk_results = <<>>
    /\ harvested = {}
    /\ aggregated_results = None
    /\ final_state = None
    /\ files = {}
    /\ returned = None
    /\ error = {}
    /\ gemini_responses = <<>>

Init ==
    /\ website_type \in WebsiteTypes
    /\ sessions_json \in {Sessions(n) : n \in 0..MaxSessions}
    /\ sample \in BOOLEAN
    /\ chunk_size = IF sample THEN SAMPLE_CHUNK_SIZE ELSE CHUNK_SIZE
    /\ InitRun
    /\ ComponentsIdle

num_chunks == Len(chunks)
max_workers == IF sample THEN SAMPLE_MAX_WORKERS ELSE MAX_WORKERS

\* --------------------------------------------------------- analyze_chunk
agents_order == <<NoneStr, "traffic_engagement", "user_journey", "device_location",
                  "orchestrator">>

initial_state(type, chunk, column_recs, start_from) ==
    AgentState(WebsiteType(type), chunk, column_recs, None, None, None, None,
               start_from, 1)

chunk_app(start_from) ==
    IF start_from # NoneStr THEN build_custom_graph(start_from) ELSE build_graph

\* one invocation of analyze_chunk, about to run its first node
NewRun(j, type, chunk, column_recs, start_from) ==
    [j EXCEPT !.status = "running",
              !.state = initial_state(type, chunk, column_recs, start_from),
              !.app = chunk_app(start_from),
              !.node = Successor(chunk_app(start_from), START),
              !.trace = <<>>,
              !.response = <<>>,
              !.invocations = @ + 1]

IdleJob ==
    [status |-> "idle", attempt |-> 0, current_agent_index |-> 0,
     state |-> None, app |-> {}, node |-> START, error |-> {},
     slept |-> <<>>, trace |-> <<>>, failed |-> None, response |-> <<>>,
     invocations |-> 0, finished_at |-> 0]

\* the position the future of chunk c takes in the list of finished futures
\* that as_completed yields from; chunk 1 has no future
FinishOrder(c) ==
    IF c = 1
    THEN 0
    ELSE 1 + Cardinality({d \in DOMAIN job :
                 d # 1 /\ job[d].status \in {"done", "raised", "collected", "dropped"}})

\* ------------------------------------------------------------ entry point
\* variant: every chunk is submitted to the pool while chunks[0] starts
StartAnalysis_all_submitted ==
    /\ pc = "start"
    /\ LET parts == Chunks(sessions_json, chunk_size)
       IN /\ chunks' = parts
          /\ IF Len(parts) = 0
             THEN /\ pc' = "except"
                  /\ error' = {"IndexError"}
                  /\ job' = job
             ELSE /\ pc' = IF Len(parts) > 1 THEN "pool" ELSE "primary"
                  /\ error' = error
                  /\ job' = [c \in 1..Len(parts) |->
                               IF c = 1
                               THEN NewRun(IdleJob, website_type, parts[1], None, NoneStr)
                               ELSE [IdleJob EXCEPT !.status = "pending"]]
    /\ UNCHANGED <<inputs, components, column_recommendations, all_chunk_results,
                   harvested, aggregated_results, final_state, files, returned,
                   gemini_responses>>

\* lines 348-372: partition, then analyze_chunk on chunks[0] begins
StartAnalysis ==
    /\ pc = "start"
    /\ LET parts == Chunks(sessions_json, chunk_size)
       IN /\ chunks' = parts
          /\ IF Len(parts) = 0
             THEN /\ pc' = "except"
                  /\ error' = {"IndexError"}
                  /\ job' = job
             ELSE /\ pc' = "primary"
                  /\ error' = error
                  /\ job' = [c \in 1..Len(parts) |->
                               IF c = 1
                               THEN NewRun(IdleJob, website_type, parts[1], None, NoneStr)
                               ELSE IdleJob]
    /\ UNCHANGED <<inputs, components, column_recommendations, all_chunk_results, harvested,
                   aggregated_results, final_state, files, returned, gemini_responses>>

\* ---------------------------------------------------------- pipeline step
\* app.invoke runs the node job[c].node of chunk c with one completion outcome
RunStage(c, node, texts) ==
    /\ c \in DOMAIN job
    /\ job[c].status = "running"
    /\ job[c].node = node
    /\ \E outcome \in Outcomes(texts[node]) :
          LET j == job[c]
              r == RunNode(node, j.state, outcome)
              next_node == Successor(j.app, node)
          IN job' = [job EXCEPT ![c] =
                 IF r.raised
                 THEN [j EXCEPT !.status = IF c = 1 THEN "raised" ELSE "caught",
                                !.state = r.state,
                                !.error = r.error,
                                !.trace = Append(@, node),
                                !.failed = [node |-> node, state |-> j.state]]
                 ELSE [j EXCEPT !.status = IF next_node = END THEN "done" ELSE "running",
                                !.finished_at = IF next_node = END THEN FinishOrder(c) ELSE @,
                                !.state = r.state,
                                !.node = next_node,
                                !.trace = Append(@, node),
                                !.response = outcome.text]]
    /\ UNCHANGED <<inputs, components, pc, chunks, column_recommendations, all_chunk_results,
                   harvested, aggregated_results, final_state, files, returned,
                   error, gemini_responses>>

ColumnStage(c) == RunStage(c, ColumnNode, SchedTexts)
TrafficStage(c) == RunStage(c, TrafficNode, SchedTexts)
JourneyStage(c) == RunStage(c, JourneyNode, SchedTexts)
DeviceStage(c) == RunStage(c, DeviceNode, SchedTexts)
OrchestratorStage(c) == RunStage(c, OrchestratorNode, SchedTexts)

\* ---------------------------------------------------------- retry wrapper
RateLimited(error_msg) == Contains(error_msg, RateLimitMarker)

\* for i, agent in enumerate(agents_order): if agent and agent in error_msg
ResumeIndex(error_msg, current_agent_index) ==
    LET hits == {i \in 1..4 : Contains(error_msg, agents_order[i + 1])}
    IN IF hits = {} THEN current_agent_index ELSE Min(hits)

RECURSIVE Pow2(_)
Pow2(n) == IF n = 0 THEN 1 ELSE 2 * Pow2(n - 1)

\* variant: a thread is started for every submitted task
WorkerStart_no_limit(c) ==
    /\ pc = "pool"
    /\ c \in DOMAIN job
    /\ job[c].status = "pending"
    /\ \A d \in 2..(c - 1) : job[d].status # "pending"
    /\ job' = [job EXCEPT ![c] =
                  NewRun(job[c], website_type, chunks[c], column_recommendations,
                         agents_order[1])]
    /\ UNCHANGED <<inputs, components, pc, chunks, column_recommendations, all_chunk_results,
                   harvested, aggregated_results, final_state, files, returned,
                   error, gemini_responses>>

\* a pool worker takes the next submitted task and makes its first attempt
WorkerStart(c) ==
    /\ pc = "pool"
    /\ c \in DOMAIN job
    /\ job[c].status = "pending"
    /\ \A d \in 2..(c - 1) : job[d].status # "pending"
    /\ Cardinality({d \in DOMAIN job : d # 1 /\ job[d].status \in {"running", "caught"}})
           < max_workers
    /\ job' = [job EXCEPT ![c] =
                  NewRun(job[c], website_type, chunks[c], column_recommendations,
                         agents_order[1])]
    /\ UNCHANGED <<inputs, components, pc, chunks, column_recommendations, all_chunk_results,
                   harvested, aggregated_results, final_state, files, returned,
                   error, gemini_responses>>

\* variant: every error is retried, with or without the rate-limit marker
RetryHandler_any_error(c) ==
    /\ c \in DOMAIN job
    /\ job[c].status = "caught"
    /\ LET j == job[c]
           index == ResumeIndex(j.error, j.current_agent_index)
           wait_time == BACKOFF_BASE * Pow2(j.attempt)
       IN job' = [job EXCEPT ![c] =
              IF j.attempt < max_retries
              THEN NewRun([j EXCEPT !.current_agent_index = index,
                                    !.slept = Append(@, wait_time),
                                    !.attempt = @ + 1],
                          website_type, chunks[c], column_recommendations,
                          agents_order[index + 1])
              ELSE [j EXCEPT !.status = "raised", !.finished_at = FinishOrder(c)]]
    /\ UNCHANGED <<inputs, components, pc, chunks, column_recommendations,
                   all_chunk_results, harvested, aggregated_results, final_state,
                   files, returned, error, gemini_responses>>

\* variant: the wait grows linearly with the attempt number
RetryHandler_linear_wait(c) ==
    /\ c \in DOMAIN job
    /\ job[c].status = "caught"
    /\ LET j == job[c]
           index == ResumeIndex(j.error, j.current_agent_index)
           wait_time == BACKOFF_BASE * (j.attempt + 1)
       IN job' = [job EXCEPT ![c] =
              IF RateLimited(j.error) /\ j.attempt < max_retries
              THEN NewRun([j EXCEPT !.current_agent_index = index,
                                    !.slept = Append(@, wait_time),
                                    !.attempt = @ + 1],
                          website_type, chunks[c], column_recommendations,
                          agents_order[index + 1])
              ELSE [j EXCEPT !.status = "raised", !.finished_at = FinishOrder(c)]]
    /\ UNCHANGED <<inputs, components, pc, chunks, column_recommendations,
                   all_chunk_results, harvested, aggregated_results, final_state,
                   files, returned, error, gemini_responses>>

\* variant: the loop allows one attempt more
RetryHandler_one_more(c) ==
    /\ c \in DOMAIN job
    /\ job[c].status = "caught"
    /\ LET j == job[c]
           index == ResumeIndex(j.error, j.current_agent_index)
           wait_time == BACKOFF_BASE * Pow2(j.attempt)
       IN job' = [job EXCEPT ![c] =
              IF RateLimited(j.error) /\ j.attempt < max_retries + 1
              THEN NewRun([j EXCEPT !.current_agent_index = index,
                                    !.slept = Append(@, wait_time),
                                    !.attempt = @ + 1],
                          website_type, chunks[c], column_recommendations,
                          agents_order[index + 1])
              ELSE [j EXCEPT !.status = "raised", !.finished_at = FinishOrder(c)]]
    /\ UNCHANGED <<inputs, components, pc, chunks, column_recommendations,
                   all_chunk_results, harvested, aggregated_results, final_state,
                   files, returned, error, gemini_responses>>

\* lines 136-152: the except clause, then the next attempt of the loop
RetryHandler(c) ==
    /\ c \in DOMAIN job
    /\ job[c].status = "caught"
    /\ LET j == job[c]
           index == ResumeIndex(j.error, j.current_agent_index)
           wait_time == BACKOFF_BASE * Pow2(j.attempt)
       IN job' = [job EXCEPT ![c] =
              IF RateLimited(j.error) /\ j.attempt < max_retries
              THEN NewRun([j EXCEPT !.current_agent_index = index,
                                    !.slept = Append(@, wait_time),
                                    !.attempt = @ + 1],
                          website_type, chunks[c], column_recommendations,
                          agents_order[index + 1])
              ELSE [j EXCEPT !.status = "raised", !.finished_at = FinishOrder(c)]]
    /\ UNCHANGED <<inputs, components, pc, chunks, column_recommendations, all_chunk_results,
                   harvested, aggregated_results, final_state, files, returned,
                   error, gemini_responses>>

\* ------------------------------------------------------------- scheduler
\* lines 373-398: keep the primary result, submit the remaining chunks
PrimaryDone ==
    /\ pc = "primary"
    /\ job[1].status = "done"
    /\ column_recommendations' = job[1].state.column_recommendations
    /\ all_chunk_results' = <<job[1].state>>
    /\ IF num_chunks > 1
       THEN /\ pc' = "pool"
            /\ job' = [c \in DOMAIN job |->
                          IF c = 1 THEN job[c] ELSE [job[c] EXCEPT !.status = "pending"]]
       ELSE /\ pc' = "aggregate"
            /\ job' = job
    /\ UNCHANGED <<inputs, components, chunks, harvested, aggregated_results, final_state,
                   files, returned, error, gemini_responses>>

\* variant: a failure of the primary chunk is dropped like that of a pool
\* chunk and the remaining chunks are submitted
PrimaryFailed_continue ==
    /\ pc = "primary"
    /\ job[1].status = "raised"
    /\ pc' = "pool"
    /\ job' = [c \in DOMAIN job |->
                  IF c = 1 THEN job[c] ELSE [job[c] EXCEPT !.status = "pending"]]
    /\ UNCHANGED <<inputs, components, chunks, column_recommendations, all_chunk_results,
                   harvested, aggregated_results, final_state, files, returned, error,
                   gemini_responses>>

\* the primary chunk has no retry wrapper: its exception reaches line 463
PrimaryFailed ==
    /\ pc = "primary"
    /\ job[1].status = "raised"
    /\ pc' = "except"
    /\ error' = job[1].error
    /\ UNCHANGED <<inputs, components, chunks, job, column_recommendations, all_chunk_results,
                   harvested, aggregated_results, final_state, files, returned,
                   gemini_responses>>

\* variant: line 410 enabled, the exception of a chunk is re-raised
Harvest_reraise(c) ==
    /\ pc = "pool"
    /\ c \in DOMAIN job
    /\ c # 1
    /\ c \notin harvested
    /\ job[c].status \in {"done", "raised"}
    /\ job[c].finished_at = Cardinality(harvested) + 1
    /\ harvested' = harvested \cup {c}
    /\ all_chunk_results' =
           IF job[c].status = "done"
           THEN Append(all_chunk_results, job[c].state)
           ELSE all_chunk_results
    /\ job' = [job EXCEPT ![c] =
                  [IdleJob EXCEPT !.status =
                      IF job[c].status = "done" THEN "collected" ELSE "dropped"]]
    /\ pc' = IF job[c].status = "raised" THEN "except"
             ELSE IF harvested' = 2..num_chunks THEN "aggregate" ELSE "pool"
    /\ error' = IF job[c].status = "raised" THEN {"RuntimeError"} ELSE error
    /\ UNCHANGED <<inputs, components, chunks, column_recommendations, aggregated_results,
                   final_state, files, returned, gemini_responses>>

\* variant: the loop waits for the futures in the order of their submission
Harvest_submission_order(c) ==
    /\ pc = "pool"
    /\ c \in DOMAIN job
    /\ c # 1
    /\ c \notin harvested
    /\ job[c].status \in {"done", "raised"}
    /\ c = Cardinality(harvested) + 2
    /\ harvested' = harvested \cup {c}
    /\ all_chunk_results' =
           IF job[c].status = "done"
           THEN Append(all_chunk_results, job[c].state)
           ELSE all_chunk_results
    /\ job' = [job EXCEPT ![c] =
                  [IdleJob EXCEPT !.status =
                      IF job[c].status = "done" THEN "collected" ELSE "dropped"]]
    /\ pc' = IF harvested' = 2..num_chunks THEN "aggregate" ELSE "pool"
    /\ UNCHANGED <<inputs, components, chunks, column_recommendations, aggregated_results,
                   final_state, files, returned, error, gemini_responses>>

\* lines 401-410: one iteration of the as_completed loop, which yields the
\* futures in the order in which they finished; the run of a chunk ends when
\* its future is consumed
Harvest(c) ==
    /\ pc = "pool"
    /\ c \in DOMAIN job
    /\ c # 1
    /\ c \notin harvested
    /\ job[c].status \in {"done", "raised"}
    /\ job[c].finished_at = Cardinality(harvested) + 1
    /\ harvested' = harvested \cup {c}
    /\ all_chunk_results' =
           IF job[c].status = "done"
           THEN Append(all_chunk_results, job[c].state)
           ELSE all_chunk_results
    /\ job' = [job EXCEPT ![c] =
                  [IdleJob EXCEPT !.status =
                      IF job[c].status = "done" THEN "collected" ELSE "dropped"]]
    /\ pc' = IF harvested' = 2..num_chunks THEN "aggregate" ELSE "pool"
    /\ UNCHANGED <<inputs, components, chunks, column_recommendations, aggregated_results,
                   final_state, files, returned, error, gemini_responses>>

\* ------------------------------------------------------------- aggregator
\* query_gemini turns every exception of the client into an error text
GeminiErrorText == <<<<"ERROR: Failed to query Gemini API">>>>
query_gemini(outcome) == IF outcome.raises THEN GeminiErrorText ELSE outcome.text

TrafficAggDefault ==
    [summary |-> "Failed to aggregate traffic analyses across chunks",
     key_metrics |-> EmptyDict,
     findings |-> "aggregation_failed"]
JourneyAggDefault ==
    [summary |-> "Failed to aggregate journey analyses across chunks",
     journey_maps |-> EmptyList,
     path_patterns |-> EmptyList,
     conversion_insights |-> "aggregation_failed"]
DeviceAggDefault ==
    [summary |-> "Failed to aggregate device analyses across chunks",
     device_breakdown |-> EmptyDict,
     location_insights |-> EmptyList,
     browser_stats |-> EmptyDict]

\* variant: one failed extraction replaces all three kinds by their defaults
aggregate_all_or_nothing(chunks_results, o_traffic, o_journey, o_device) ==
    LET traffic_ex == extract_json_from_text(query_gemini(o_traffic))
        journey_ex == extract_json_from_text(query_gemini(o_journey))
        device_ex == extract_json_from_text(query_gemini(o_device))
        failed == EmptyMapping \in {traffic_ex, journey_ex, device_ex}
    IN [traffic_engagement_analysis |->
            IF failed THEN TrafficAggDefault ELSE traffic_ex,
        user_journey_analysis |->
            IF failed THEN JourneyAggDefault ELSE journey_ex,
        device_location_analysis |->
            IF failed THEN DeviceAggDefault ELSE device_ex]

\* the three completion outcomes are those of the traffic, journey and device calls
aggregate_with_llm(chunks_results, o_traffic, o_journey, o_device) ==
    LET traffic_ex == extract_json_from_text(query_gemini(o_traffic))
        journey_ex == extract_json_from_text(query_gemini(o_journey))
        device_ex == extract_json_from_text(query_gemini(o_device))
    IN [traffic_engagement_analysis |->
            IF traffic_ex = EmptyMapping THEN TrafficAggDefault ELSE traffic_ex,
        user_journey_analysis |->
            IF journey_ex = EmptyMapping THEN JourneyAggDefault ELSE journey_ex,
        device_location_analysis |->
            IF device_ex = EmptyMapping THEN DeviceAggDefault ELSE device_ex]

\* responses of the aggregation calls: summary only, every key; the response
\* without payload is the error text of query_gemini
AggTexts(keys) == {ObjectText(<<<<"summary", "v">>>>), FullText(keys)}

\* variant: with two chunks the analyses of the primary chunk are passed on
\* without aggregation
Aggregate_skipped_for_two ==
    /\ pc = "aggregate"
    /\ \E o_traffic \in Outcomes(AggTexts(TrafficKeys)),
          o_journey \in Outcomes(AggTexts(JourneyKeys)),
          o_device \in Outcomes(AggTexts(DeviceKeys)) :
          IF num_chunks = 2
          THEN /\ aggregated_results' =
                      [a \in {"traffic_engagement_analysis", "user_journey_analysis",
                               "device_location_analysis"} |-> all_chunk_results[1][a]]
               /\ gemini_responses' = gemini_responses
          ELSE /\ aggregated_results' =
                      aggregate_with_llm(all_chunk_results, o_traffic, o_journey, o_device)
               /\ gemini_responses' =
                      gemini_responses \o <<query_gemini(o_traffic), query_gemini(o_journey),
                                            query_gemini(o_device)>>
    /\ pc' = "orchestrate"
    /\ UNCHANGED <<inputs, components, chunks, job, column_recommendations, all_chunk_results,
                   harvested, final_state, files, returned, error>>

\* lines 412-422
Aggregate ==
    /\ pc = "aggregate"
    /\ \E o_traffic \in Outcomes(AggTexts(TrafficKeys)),
          o_journey \in Outcomes(AggTexts(JourneyKeys)),
          o_device \in Outcomes(AggTexts(DeviceKeys)) :
          /\ aggregated_results' =
                 aggregate_with_llm(all_chunk_results, o_traffic, o_journey, o_device)
          /\ gemini_responses' =
                 gemini_responses \o <<query_gemini(o_traffic), query_gemini(o_journey),
                                       query_gemini(o_device)>>
    /\ pc' = "orchestrate"
    /\ UNCHANGED <<inputs, components, chunks, job, column_recommendations, all_chunk_results,
                   harvested, final_state, files, returned, error>>

gemini_calls == Len(gemini_responses)

\* ------------------------------------------------------ final orchestration
\* responses of the final orchestration call: no payload, every key, and a
\* payload whose action plan is null
FinalTexts ==
    {NoBraceText, FullText(ReportKeys),
     ObjectText(<<<<"prioritized_action_plan", JsonNull>>>>)}

\* lines 430-443
FinalOrchestration ==
    /\ pc = "orchestrate"
    /\ \E outcome \in Outcomes(FinalTexts) :
          LET orchestrator_state ==
                  AgentState(all_chunk_results[1].website_info, <<>>,
                             all_chunk_results[1].column_recommendations,
                             aggregated_results.traffic_engagement_analysis,
                             aggregated_results.user_journey_analysis,
                             aggregated_results.device_location_analysis,
                             None, "Orchestrator Agent", 1)
              r == orchestrator_agent(orchestrator_state, outcome)
          IN IF r.raised
             THEN /\ pc' = "except"
                  /\ error' = r.error
                  /\ final_state' = final_state
             ELSE /\ pc' = "report"
                  /\ error' = error
                  /\ final_state' = r.state
    /\ UNCHANGED <<inputs, components, chunks, job, column_recommendations, all_chunk_results,
                   harvested, aggregated_results, files, returned, gemini_responses>>

\* --------------------------------------------------------------- reporting
\* sorting or iterating a field that is None raises
RenderRaises(final_report) ==
    \E i \in 1..Len(ReportKeys) : Get(final_report, ReportKeys[i], EmptyList) = JsonNull

generate_markdown_report(final_report) ==
    [doc |-> "analysis_report", body |-> final_report, cause |-> {}]

emergency_report(e) == [doc |-> "error_report", body |-> None, cause |-> e]

\* lines 446-461
RenderAndSave ==
    /\ pc = "report"
    /\ LET markdown_report == generate_markdown_report(final_state.final_report)
           report_filename == <<ReportStem(website_type), "_analysis_report.md">>
       IN IF RenderRaises(final_state.final_report)
          THEN /\ pc' = "except"
               /\ error' = TypeError
               /\ UNCHANGED <<files, returned>>
          ELSE IF Unwritable(report_filename[1])
          THEN /\ pc' = "except"
               /\ error' = {"FileNotFoundError"}
               /\ UNCHANGED <<files, returned>>
          ELSE /\ pc' = "returned"
               /\ error' = error
               /\ files' = files \cup {[name |-> report_filename,
                                        content |-> markdown_report]}
               /\ returned' = [state |-> final_state, report |-> markdown_report]
    /\ UNCHANGED <<inputs, components, chunks, job, column_recommendations, all_chunk_results,
                   harvested, aggregated_results, final_state, gemini_responses>>

minimal_state ==
    AgentState(WebsiteType(website_type), <<>>, None, None, None, None, None,
               NoneStr, 1)

\* lines 463-509: the outermost except clause
HandleError ==
    /\ pc = "except"
    /\ LET emergency_filename == <<ReportStem(website_type), "_error_report.md">>
       IN IF Unwritable(emergency_filename[1])
          THEN /\ pc' = "raised"
               /\ UNCHANGED <<files, returned>>
          ELSE /\ pc' = "returned"
               /\ files' = files \cup {[name |-> emergency_filename,
                                        content |-> emergency_report(error)]}
               /\ returned' = [state |-> minimal_state,
                               report |-> emergency_report(error)]
    /\ UNCHANGED <<inputs, components, chunks, job, column_recommendations, all_chunk_results,
                   harvested, aggregated_results, final_state, error, gemini_responses>>

\* ---------------------------------------------------------- specification
Next ==
    \/ StartAnalysis
    \/ \E c \in DOMAIN job : ColumnStage(c)
    \/ \E c \in DOMAIN job : TrafficStage(c)
    \/ \E c \in DOMAIN job : JourneyStage(c)
    \/ \E c \in DOMAIN job : DeviceStage(c)
    \/ \E c \in DOMAIN job : OrchestratorStage(c)
    \/ \E c \in DOMAIN job : WorkerStart(c)
    \/ \E c \in DOMAIN job : RetryHandler(c)
    \/ PrimaryDone
    \/ PrimaryFailed
    \/ \E c \in DOMAIN job : Harvest(c)
    \/ Aggregate
    \/ FinalOrchestration
    \/ RenderAndSave
    \/ HandleError

Spec == Init /\ [][Next]_vars

\* ------------------------------------------- one pipeline, many responses
\* responses of a stage: no brace, an unclosed brace, the empty object, the
\* first required key only, every key, every key with the first one null
StageTexts ==
    [n \in Nodes |->
        LET keys == RequiredKeys(n)
        IN {NoBraceText,
            <<Prose, OpenBrace>>,
            ObjectText(<<>>),
            ObjectText(<<<<keys[1], "v">>>>),
            FullText(keys),
            ObjectText([i \in 1..Len(keys) |->
                           <<keys[i], IF i = 1 THEN JsonNull ELSE "v">>])}]

ColumnStageAny(c) == RunStage(c, ColumnNode, StageTexts)
TrafficStageAny(c) == RunStage(c, TrafficNode, StageTexts)
JourneyStageAny(c) == RunStage(c, JourneyNode, StageTexts)
DeviceStageAny(c) == RunStage(c, DeviceNode, StageTexts)
OrchestratorStageAny(c) == RunStage(c, OrchestratorNode, StageTexts)

\* runs of one chunk (CHUNK_SIZE exceeds MaxSessions), up to the aggregator
StageInit ==
    /\ website_type \in WebsiteTypes
    /\ sessions_json \in {Sessions(n) : n \in 0..MaxSessions}
    /\ sample = FALSE
    /\ chunk_size = CHUNK_SIZE
    /\ InitRun
    /\ ComponentsIdle

StageNext ==
    \/ StartAnalysis
    \/ \E c \in DOMAIN job : ColumnStageAny(c)
    \/ \E c \in DOMAIN job : TrafficStageAny(c)
    \/ \E c \in DOMAIN job : JourneyStageAny(c)
    \/ \E c \in DOMAIN job : DeviceStageAny(c)
    \/ \E c \in DOMAIN job : OrchestratorStageAny(c)
    \/ PrimaryDone
    \/ PrimaryFailed
    \/ HandleError

StageSpec == StageInit /\ [][StageNext]_vars

\* ------------------------------------------------- partition on its own
\* session lists with repeated records, every chunk size up to MaxChunkSize
PartitionInit ==
    /\ website_type \in WebsiteTypes
    /\ sessions_json \in UNION {[1..n -> SessionValues] : n \in 0..MaxSessions}
    /\ sample = FALSE
    /\ chunk_size \in 1..MaxChunkSize
    /\ InitRun
    /\ ComponentsIdle

PartitionNext == StartAnalysis

PartitionSpec == PartitionInit /\ [][PartitionNext]_vars

\* ------------------------------------------ the components on their own
\* the entry point has not been called
SchedulerIdle ==
    /\ website_type = "real estate"
    /\ sessions_json = <<>>
    /\ sample = FALSE
    /\ chunk_size = CHUNK_SIZE
    /\ InitRun

scheduler == <<website_type, sessions_json, sample, chunk_size, pc, chunks, job,
               column_recommendations, all_chunk_results, harvested,
               aggregated_results, final_state, files, returned, error,
               gemini_responses>>

\* ------------------------------------------- RateLimiter.wait_if_needed
RECURSIVE SumTokens(_)
SumTokens(usage) ==
    IF usage = <<>> THEN 0 ELSE Head(usage).tokens + SumTokens(Tail(usage))

\* lines 32 and 45: [ts for ts in self.call_timestamps if now - ts < 60]
PruneCalls(timestamps, now) ==
    SelectSeq(timestamps, LAMBDA ts : now - ts < WINDOW)

\* lines 33 and 46
PruneUsage(usage, now) ==
    SelectSeq(usage, LAMBDA u : now - u.ts < WINDOW)

\* min(self.call_timestamps)
Oldest(timestamps) == Min({timestamps[i] : i \in 1..Len(timestamps)})

\* variant: the buffer second is subtracted instead of added
request_wait_time_short(now, oldest_timestamp) ==
    WINDOW - (now - oldest_timestamp) - 1

\* line 38
request_wait_time(now, oldest_timestamp) ==
    WINDOW - (now - oldest_timestamp) + 1

\* variant: the holder gives the lock up for the time of its sleep
lock_acquirable_while_asleep ==
    IF lock = NoThread THEN TRUE ELSE caller[lock].pc \in {"sleep_request", "sleep_tokens"}

\* variant: entering the block does not wait for the holder of the lock
lock_acquirable_unguarded == TRUE

\* line 28: "with self.lock" blocks while another thread holds the lock
lock_acquirable == lock = NoThread

\* variant: the call returns without releasing the lock
Record_keeps_lock(t, estimated_tokens, oldest, now, timestamps, usage) ==
    /\ call_timestamps' = Append(timestamps, now)
    /\ token_usage' = Append(usage, [ts |-> now, tokens |-> estimated_tokens])
    /\ lock' = t
    /\ last_return' = [at |-> now, oldest |-> oldest, tokens |-> estimated_tokens,
                        token_wait |-> caller[t].pc = "sleep_tokens"]
    /\ caller' = [caller EXCEPT ![t] = IdleCaller]

\* lines 62-64, then the lock is released and the call returns
Record(t, estimated_tokens, oldest, now, timestamps, usage) ==
    /\ call_timestamps' = Append(timestamps, now)
    /\ token_usage' = Append(usage, [ts |-> now, tokens |-> estimated_tokens])
    /\ lock' = NoThread
    /\ last_return' = [at |-> now, oldest |-> oldest, tokens |-> estimated_tokens,
                        token_wait |-> caller[t].pc = "sleep_tokens"]
    /\ caller' = [caller EXCEPT ![t] = IdleCaller]

\* lines 48-64: the token check, which sleeps a full window or records the call
TokenCheck(t, estimated_tokens, oldest, now, timestamps, usage) ==
    LET total_tokens == SumTokens(usage) + estimated_tokens
    IN IF total_tokens > tokens_per_minute
       THEN /\ caller' = [caller EXCEPT ![t] =
                             [pc |-> "sleep_tokens",
                              estimated_tokens |-> estimated_tokens,
                              wake |-> now + WINDOW,
                              oldest |-> oldest]]
            /\ call_timestamps' = timestamps
            /\ token_usage' = usage
            /\ lock' = t
            /\ last_return' = last_return
       ELSE Record(t, estimated_tokens, oldest, now, timestamps, usage)

MaxHalfWindows == 4
MaxEstimate == 3
MaxCalls == 2
MaxBudget == 2

\* the instants at which the clock is observed: around every half window
Instants ==
    {i \in 0..(MaxHalfWindows * (WINDOW \div 2) + 2) :
        \E h \in 0..MaxHalfWindows : i - h * (WINDOW \div 2) \in -1..2}

\* lines 29-41: thread t, holding the lock, prunes and checks the request count
RequestCheck(t, estimated_tokens) ==
    LET now == clock
        timestamps == PruneCalls(call_timestamps, now)
        usage == PruneUsage(token_usage, now)
    IN IF Len(timestamps) >= max_calls_per_minute
       THEN LET oldest_timestamp == Oldest(timestamps)
                wait_time == request_wait_time(now, oldest_timestamp)
            IN /\ caller' = [caller EXCEPT ![t] =
                                [pc |-> "sleep_request",
                                 estimated_tokens |-> estimated_tokens,
                                 wake |-> now + wait_time,
                                 oldest |-> oldest_timestamp]]
               /\ call_timestamps' = timestamps
               /\ token_usage' = usage
               /\ lock' = t
               /\ last_return' = last_return
       ELSE TokenCheck(t, estimated_tokens, -1, now, timestamps, usage)

\* lines 28-41: thread t enters wait_if_needed(estimated_tokens)
WaitIfNeeded(t) ==
    /\ caller[t].pc = "idle"
    /\ lock_acquirable
    /\ \E estimated_tokens \in 1..MaxEstimate : RequestCheck(t, estimated_tokens)
    /\ UNCHANGED <<max_calls_per_minute, tokens_per_minute, clock, scheduler, extraction,
                   projection, client>>

\* lines 41-64: time.sleep(wait_time) of the request check is over
RequestSleepEnds(t) ==
    /\ caller[t].pc = "sleep_request"
    /\ clock >= caller[t].wake
    /\ LET now == clock
       IN TokenCheck(t, caller[t].estimated_tokens, caller[t].oldest, now,
                     PruneCalls(call_timestamps, now), PruneUsage(token_usage, now))
    /\ UNCHANGED <<max_calls_per_minute, tokens_per_minute, clock, scheduler, extraction,
                   projection, client>>

\* variant: the lists are not reset after the sleep
TokenSleepEnds_no_reset(t) ==
    /\ caller[t].pc = "sleep_tokens"
    /\ clock >= caller[t].wake
    /\ Record(t, caller[t].estimated_tokens, caller[t].oldest, clock,
              call_timestamps, token_usage)
    /\ UNCHANGED <<max_calls_per_minute, tokens_per_minute, clock, scheduler, extraction,
                   projection, client>>

\* lines 55-64: time.sleep(60) of the token check is over, both lists are reset
TokenSleepEnds(t) ==
    /\ caller[t].pc = "sleep_tokens"
    /\ clock >= caller[t].wake
    /\ Record(t, caller[t].estimated_tokens, caller[t].oldest, clock, <<>>, <<>>)
    /\ UNCHANGED <<max_calls_per_minute, tokens_per_minute, clock, scheduler, extraction,
                   projection, client>>

\* time passes until the next observation of the clock
Tick ==
    /\ \E i \in Instants : i > clock /\ clock' = i
    /\ UNCHANGED <<max_calls_per_minute, tokens_per_minute, call_timestamps,
                   token_usage, lock, caller, last_return, scheduler, extraction,
                   projection, client>>

LimiterInit ==
    /\ SchedulerIdle
    /\ HelpersIdle
    /\ \E max_calls \in 1..MaxCalls, tokens \in 1..MaxBudget :
          LimiterNew(max_calls, tokens)

LimiterNext ==
    \/ \E t \in Threads : WaitIfNeeded(t)
    \/ \E t \in Threads : RequestSleepEnds(t)
    \/ \E t \in Threads : TokenSleepEnds(t)
    \/ Tick

LimiterSpec == LimiterInit /\ [][LimiterNext]_vars

\* ------------------------------------- wait_if_needed, calls without end
\* The code reads the clock only in differences with the recorded times and
\* compares them with 60: here the clock stands still and every recorded time
\* moves back as time passes, down to the age of a full window, so that the
\* threads can call for ever.  A thread that has called and waits for the
\* lock at line 28 is "blocked".

\* thread t calls wait_if_needed(estimated_tokens) and reaches line 28
CallWaitIfNeeded(t) ==
    /\ caller[t].pc = "idle"
    /\ \E estimated_tokens \in 1..MaxEstimate :
          caller' = [caller EXCEPT ![t] =
                        [IdleCaller EXCEPT !.pc = "blocked",
                                           !.estimated_tokens = estimated_tokens]]
    /\ UNCHANGED <<max_calls_per_minute, tokens_per_minute, call_timestamps, token_usage,
                   lock, clock, last_return, scheduler, extraction, projection, client>>

\* line 28: the blocked thread t is given the lock
AcquireLock(t) ==
    /\ caller[t].pc = "blocked"
    /\ lock_acquirable
    /\ RequestCheck(t, caller[t].estimated_tokens)
    /\ UNCHANGED <<max_calls_per_minute, tokens_per_minute, clock, scheduler, extraction,
                   projection, client>>

\* the time that passes in one step
Elapse == {WINDOW \div 2, WINDOW \div 2 + 1}

\* a recorded time d seconds later, seen from a clock that stands still
Aged(ts, d) == Max({ts - d, clock - WINDOW})

\* d seconds pass
Elapsed ==
    /\ \E d \in Elapse :
          /\ call_timestamps' =
                 [i \in DOMAIN call_timestamps |-> Aged(call_timestamps[i], d)]
          /\ token_usage' =
                 [i \in DOMAIN token_usage |->
                     [token_usage[i] EXCEPT !.ts = Aged(@, d)]]
          /\ caller' =
                 [t \in Threads |->
                     [caller[t] EXCEPT
                         !.wake = IF caller[t].pc \in {"sleep_request", "sleep_tokens"}
                                  THEN Max({@ - d, clock})
                                  ELSE @,
                         !.oldest = IF @ = -1 THEN @ ELSE Aged(@, d)]]
    /\ last_return' = None
    /\ UNCHANGED <<max_calls_per_minute, tokens_per_minute, lock, clock, scheduler,
                   extraction, projection, client>>

LimiterFairInit ==
    /\ SchedulerIdle
    /\ HelpersIdle
    /\ \E max_calls \in 1..MaxCalls, tokens \in 1..MaxBudget :
          /\ max_calls_per_minute = max_calls
          /\ tokens_per_minute = tokens
    /\ call_timestamps = <<>>
    /\ token_usage = <<>>
    /\ lock = NoThread
    /\ clock = WINDOW
    /\ caller = [t \in Threads |-> IdleCaller]
    /\ last_return = None

LimiterFairNext ==
    \/ \E t \in Threads : CallWaitIfNeeded(t)
    \/ \E t \in Threads : AcquireLock(t)
    \/ \E t \in Threads : RequestSleepEnds(t)
    \/ \E t \in Threads : TokenSleepEnds(t)
    \/ Elapsed

\* the lock is given to every thread that can take it again and again, a
\* thread whose sleep is over goes on, and time passes
LimiterFairness ==
    /\ \A t \in Threads : SF_vars(AcquireLock(t))
    /\ \A t \in Threads : WF_vars(RequestSleepEnds(t))
    /\ \A t \in Threads : WF_vars(TokenSleepEnds(t))
    /\ WF_vars(Elapsed)

LimiterFairSpec == LimiterFairInit /\ [][LimiterFairNext]_vars /\ LimiterFairness

\* --------------------------------------------- extract_json_from_text
MaxTextLen == 4
Tokens == {OpenBrace, CloseBrace, Prose, <<"summary", "v">>, <<"findings", "[]">>}
Texts == UNION {[1..n -> Tokens] : n \in 0..MaxTextLen}

\* one call of the extractor on text_arg
Extract ==
    /\ extract_outcome = None
    /\ extract_outcome' = extract_json_call(text_arg)
    /\ UNCHANGED <<text_arg, scheduler, limiter, projection, client>>

ExtractInit ==
    /\ SchedulerIdle
    /\ LimiterNew(DEFAULT_MAX_CALLS, DEFAULT_TOKENS)
    /\ text_arg \in Texts
    /\ extract_outcome = None
    /\ ProjectionIdle
    /\ ClientIdle

ExtractNext == Extract

ExtractSpec == ExtractInit /\ [][ExtractNext]_vars

\* ------------------------------------------------- filter_session_data
\* A session is a mapping from column names to values; a value is a scalar
\* or a list of items, an item being a mapping.  A column name is the
\* sequence of its parts around the first dot: <<"a">>, <<"hits", "p">>.
Scalar(v) == [kind |-> "scalar", val |-> v]
List(items) == [kind |-> "list", items |-> items]

\* m[k] = v
Put(m, k, v) == [x \in DOMAIN m \cup {k} |-> IF x = k THEN v ELSE m[x]]

\* variant: a column absent from the session is stored as None
filter_column_keep_absent(session, filtered_session, col) ==
    IF Len(col) = 2
    THEN LET parent == col[1]
             child == col[2]
         IN IF parent \in DOMAIN session /\ session[parent].kind = "list"
            THEN LET kept == SelectSeq(session[parent].items,
                                       LAMBDA item : child \in DOMAIN item)
                 IN Put(filtered_session, parent,
                        List([j \in 1..Len(kept) |-> (child :> kept[j][child])]))
            ELSE filtered_session
    ELSE Put(filtered_session, col[1],
             IF col[1] \in DOMAIN session THEN session[col[1]] ELSE Scalar(NoneStr))

\* lines 38-49: one iteration of "for col in columns"
filter_column(session, filtered_session, col) ==
    IF Len(col) = 2
    THEN LET parent == col[1]
             child == col[2]
         IN IF parent \in DOMAIN session /\ session[parent].kind = "list"
            THEN LET kept == SelectSeq(session[parent].items,
                                       LAMBDA item : child \in DOMAIN item)
                 IN Put(filtered_session, parent,
                        List([j \in 1..Len(kept) |-> (child :> kept[j][child])]))
            ELSE filtered_session
    ELSE IF col[1] \in DOMAIN session
         THEN Put(filtered_session, col[1], session[col[1]])
         ELSE filtered_session

\* lines 36-49: the record built for one session
RECURSIVE filter_session(_, _, _)
filter_session(session, filtered_session, columns) ==
    IF columns = <<>>
    THEN filtered_session
    ELSE filter_session(session, filter_column(session, filtered_session, Head(columns)),
                        Tail(columns))

\* lines 32-51
filter_session_data(sessions, columns) ==
    [i \in 1..Len(sessions) |-> filter_session(sessions[i], EmptyMapping, columns)]

MaxColumns == 3
MaxFilterSessions == 2

ColumnNames == {<<"a">>, <<"b">>, <<"hits">>, <<"hits", "p">>, <<"hits", "q">>}

HitsList == List(<<("p" :> "p1") @@ ("q" :> "q1"), ("q" :> "q2")>>)

\* sessions with and without the column a, without the column b, and whose
\* column hits is absent, a scalar or a list of two items
SessionPool ==
    {h @@ a : a \in {EmptyMapping, ("a" :> Scalar("x"))},
              h \in {EmptyMapping, ("hits" :> Scalar("s")), ("hits" :> HitsList)}}

FilterSessionData ==
    /\ filtered_sessions = None
    /\ filtered_sessions' = Value(filter_session_data(sessions_arg, columns_arg))
    /\ UNCHANGED <<sessions_arg, columns_arg, scheduler, limiter, extraction, client>>

FilterInit ==
    /\ SchedulerIdle
    /\ LimiterNew(DEFAULT_MAX_CALLS, DEFAULT_TOKENS)
    /\ ExtractionIdle
    /\ ClientIdle
    /\ sessions_arg \in UNION {[1..n -> SessionPool] : n \in 0..MaxFilterSessions}
    /\ columns_arg \in UNION {[1..n -> ColumnNames] : n \in 0..MaxColumns}
    /\ filtered_sessions = None

FilterNext == FilterSessionData

FilterSpec == FilterInit /\ [][FilterNext]_vars

\* ---------------------------------------------------------- query_mistral
\* One call of query_mistral.  A message is the length of its content; the
\* limiter's wait_if_needed is one step here (LimiterSpec has its inside).
MaxMessages == 2
ContentLengths == {0, 3, 4, 8}
COMPLETION_TOKENS == 1000

ClientTexts == {NoBraceText, FullText(TrafficKeys)}

\* lines 91-97
RECURSIVE estimate_tokens(_)
estimate_tokens(messages) ==
    IF messages = <<>>
    THEN COMPLETION_TOKENS
    ELSE (Head(messages) \div 4) + estimate_tokens(Tail(messages))

NewQuery(api_key, messages) ==
    [pc |-> "get_client", api_key |-> api_key, messages |-> messages,
     acquires |-> <<>>, completions |-> 0, api_error |-> {},
     returned_text |-> <<>>, raised_error |-> {}]

\* line 88, get_mistral_client lines 70-75
GetClient ==
    /\ query # None
    /\ query.pc = "get_client"
    /\ query' = IF query.api_key
                THEN [query EXCEPT !.pc = "wait_if_needed"]
                ELSE [query EXCEPT !.pc = "raised", !.raised_error = {"ValueError"}]
    /\ UNCHANGED <<scheduler, limiter, extraction, projection>>

\* line 100
WaitBeforeCall ==
    /\ query # None
    /\ query.pc = "wait_if_needed"
    /\ query' = [query EXCEPT !.pc = "complete",
                              !.acquires = Append(@, estimate_tokens(query.messages))]
    /\ UNCHANGED <<scheduler, limiter, extraction, projection>>

\* variant: a failed completion call is made once more after another acquire
ChatComplete_retry ==
    /\ query # None
    /\ query.pc = "complete"
    /\ \E outcome \in Outcomes(ClientTexts) :
          query' = IF outcome.raises
                   THEN IF query.completions = 0
                        THEN [query EXCEPT !.pc = "wait_if_needed",
                                           !.completions = @ + 1,
                                           !.api_error = outcome.error]
                        ELSE [query EXCEPT !.pc = "raised",
                                           !.completions = @ + 1,
                                           !.api_error = outcome.error,
                                           !.raised_error = outcome.error]
                   ELSE [query EXCEPT !.pc = "returned",
                                      !.completions = @ + 1,
                                      !.returned_text = outcome.text]
    /\ UNCHANGED <<scheduler, limiter, extraction, projection>>

\* lines 103-113
ChatComplete ==
    /\ query # None
    /\ query.pc = "complete"
    /\ \E outcome \in Outcomes(ClientTexts) :
          query' = IF outcome.raises
                   THEN [query EXCEPT !.pc = "raised",
                                      !.completions = @ + 1,
                                      !.api_error = outcome.error,
                                      !.raised_error = outcome.error]
                   ELSE [query EXCEPT !.pc = "returned",
                                      !.completions = @ + 1,
                                      !.returned_text = outcome.text]
    /\ UNCHANGED <<scheduler, limiter, extraction, projection>>

ClientInit ==
    /\ SchedulerIdle
    /\ LimiterNew(DEFAULT_MAX_CALLS, DEFAULT_TOKENS)
    /\ ExtractionIdle
    /\ ProjectionIdle
    /\ \E api_key \in BOOLEAN, n \in 0..MaxMessages :
          \E messages \in [1..n -> ContentLengths] :
              query = NewQuery(api_key, messages)

ClientNext ==
    \/ GetClient
    \/ WaitBeforeCall
    \/ ChatComplete

ClientSpec == ClientInit /\ [][ClientNext]_vars

\* --------------------------------------------- analyze_chunk on its own
\* responses of the column stage: no brace, and every object in which each of
\* the three lists is absent, usable, empty or null
ColumnValues == {"absent", "v", EmptyList, JsonNull}

ColumnTexts ==
    {NoBraceText} \cup
    {ObjectText(SelectSeq([i \in 1..Len(ColumnKeys) |-> <<ColumnKeys[i], f[i]>>],
                          LAMBDA m : m[2] # "absent")) :
        f \in [1..Len(ColumnKeys) -> ColumnValues]}

ChunkTexts ==
    [n \in Nodes |->
        IF n = ColumnNode
        THEN ColumnTexts
        ELSE {NoBraceText, FullText(RequiredKeys(n))}]

ColumnStageOne(c) == RunStage(c, ColumnNode, ChunkTexts)
TrafficStageOne(c) == RunStage(c, TrafficNode, ChunkTexts)
JourneyStageOne(c) == RunStage(c, JourneyNode, ChunkTexts)
DeviceStageOne(c) == RunStage(c, DeviceNode, ChunkTexts)
OrchestratorStageOne(c) == RunStage(c, OrchestratorNode, ChunkTexts)

\* one call analyze_chunk(website_type, specific_issues, chunk,
\* column_recommendations, chunk_id, agents_order[current_agent_index]) with
\* every entry of agents_order, with and without a column recommendation
ChunkInit ==
    /\ website_type \in WebsiteTypes
    /\ sessions_json \in {Sessions(n) : n \in 1..2}
    /\ sample = FALSE
    /\ chunk_size = CHUNK_SIZE
    /\ pc = "analyze_chunk"
    /\ chunks = <<sessions_json>>
    /\ column_recommendations \in {None, DefaultColumns}
    /\ \E i \in 0..(Len(agents_order) - 1) :
          job = <<NewRun([IdleJob EXCEPT !.current_agent_index = i],
                         website_type, sessions_json, column_recommendations,
                         agents_order[i + 1])>>
    /\ all_chunk_results = <<>>
    /\ harvested = {}
    /\ aggregated_results = None
    /\ final_state = None
    /\ files = {}
    /\ returned = None
    /\ error = {}
    /\ gemini_responses = <<>>
    /\ ComponentsIdle

ChunkNext ==
    \/ \E c \in DOMAIN job : ColumnStageOne(c)
    \/ \E c \in DOMAIN job : TrafficStageOne(c)
    \/ \E c \in DOMAIN job : JourneyStageOne(c)
    \/ \E c \in DOMAIN job : DeviceStageOne(c)
    \/ \E c \in DOMAIN job : OrchestratorStageOne(c)

ChunkSpec == ChunkInit /\ [][ChunkNext]_vars

\* ------------------------------------- analyze_chunk_with_retry on its own
\* what str(e) of an exception leaving analyze_chunk may hold: the rate-limit
\* marker or not, and the name of one stage or of none
StageNames == {agents_order[i] : i \in 2..Len(agents_order)}

WrapperErrors == {e \cup n : e \in ApiErrors, n \in {{}} \cup {{a} : a \in StageNames}}

\* line 128: the call of analyze_chunk returns
AnalyzeChunkReturns(c) ==
    /\ c \in DOMAIN job
    /\ job[c].status = "running"
    /\ job' = [job EXCEPT ![c] = [@ EXCEPT !.status = "done",
                                           !.finished_at = FinishOrder(c)]]
    /\ UNCHANGED <<inputs, components, pc, chunks, column_recommendations,
                   all_chunk_results, harvested, aggregated_results, final_state,
                   files, returned, error, gemini_responses>>

\* lines 136-137: the call of analyze_chunk raises, str(e) is error_msg
AnalyzeChunkRaisesOneOf(c, errors) ==
    /\ c \in DOMAIN job
    /\ job[c].status = "running"
    /\ \E error_msg \in errors :
          job' = [job EXCEPT ![c] = [@ EXCEPT !.status = "caught",
                                             !.error = error_msg]]
    /\ UNCHANGED <<inputs, components, pc, chunks, column_recommendations,
                   all_chunk_results, harvested, aggregated_results, final_state,
                   files, returned, error, gemini_responses>>

AnalyzeChunkRaises(c) == AnalyzeChunkRaisesOneOf(c, WrapperErrors)

\* lines 121-128: the wrapper makes its first call, from the top
WrapperInit ==
    /\ website_type \in WebsiteTypes
    /\ sessions_json \in {Sessions(n) : n \in 1..2}
    /\ sample = FALSE
    /\ chunk_size = CHUNK_SIZE
    /\ pc = "wrapper"
    /\ chunks = <<sessions_json>>
    /\ column_recommendations \in {None, DefaultColumns}
    /\ job = <<NewRun(IdleJob, website_type, sessions_json, column_recommendations,
                     agents_order[1])>>
    /\ all_chunk_results = <<>>
    /\ harvested = {}
    /\ aggregated_results = None
    /\ final_state = None
    /\ files = {}
    /\ returned = None
    /\ error = {}
    /\ gemini_responses = <<>>
    /\ ComponentsIdle

WrapperNext ==
    \/ \E c \in DOMAIN job : AnalyzeChunkReturns(c)
    \/ \E c \in DOMAIN job : AnalyzeChunkRaises(c)
    \/ \E c \in DOMAIN job : RetryHandler(c)

WrapperSpec == WrapperInit /\ [][WrapperNext]_vars

\* --------------------------------------------------- the pool on its own
\* the state a run of the five stages ends in when every response is usable
CompletedState(type, chunk) ==
    LET s0 == initial_state(type, chunk, None, NoneStr)
        s1 == column_recommendation_agent(s0, Returns(FullText(ColumnKeys))).state
        s2 == traffic_engagement_agent(s1, Returns(FullText(TrafficKeys))).state
        s3 == user_journey_agent(s2, Returns(FullText(JourneyKeys))).state
        s4 == device_location_agent(s3, Returns(FullText(DeviceKeys))).state
    IN orchestrator_agent(s4, Returns(FullText(ReportKeys))).state

\* failed attempts of the pool chunks so far
MaxFailures == 2

Failures ==
    LET n(c) == job[c].attempt + (IF job[c].status \in {"caught", "raised"} THEN 1 ELSE 0)
        sum[k \in 0..Len(job)] == IF k = 0 THEN 0 ELSE sum[k - 1] + n(k)
    IN sum[Len(job)]

\* an attempt of a pool chunk raises what its stages raise
PoolErrors == {AgentError("traffic_engagement", e) : e \in ApiErrors}

PoolAttemptRaises(c) ==
    /\ Failures < MaxFailures
    /\ AnalyzeChunkRaisesOneOf(c, PoolErrors)

\* lines 373-398 have run: the primary chunk is done and one chunk more than
\* the pool has workers is submitted
PoolInit ==
    /\ website_type \in WebsiteTypes
    /\ sample \in BOOLEAN
    /\ chunk_size = IF sample THEN SAMPLE_CHUNK_SIZE ELSE CHUNK_SIZE
    /\ sessions_json =
           Sessions(chunk_size *
                    ((IF sample THEN SAMPLE_MAX_WORKERS ELSE MAX_WORKERS) + 1) + 1)
    /\ pc = "pool"
    /\ chunks = Chunks(sessions_json, chunk_size)
    /\ column_recommendations =
           CompletedState(website_type, chunks[1]).column_recommendations
    /\ job = [c \in 1..Len(chunks) |->
                 IF c = 1
                 THEN [IdleJob EXCEPT !.status = "done",
                                      !.state = CompletedState(website_type, chunks[1]),
                                      !.app = build_graph,
                                      !.node = END,
                                      !.trace = AllStages,
                                      !.invocations = 1]
                 ELSE [IdleJob EXCEPT !.status = "pending"]]
    /\ all_chunk_results = <<CompletedState(website_type, chunks[1])>>
    /\ harvested = {}
    /\ aggregated_results = None
    /\ final_state = None
    /\ files = {}
    /\ returned = None
    /\ error = {}
    /\ gemini_responses = <<>>
    /\ ComponentsIdle

PoolNext ==
    \/ \E c \in DOMAIN job : WorkerStart(c)
    \/ \E c \in DOMAIN job : AnalyzeChunkReturns(c)
    \/ \E c \in DOMAIN job : PoolAttemptRaises(c)
    \/ \E c \in DOMAIN job : RetryHandler(c)

PoolSpec == PoolInit /\ [][PoolNext]_vars

\* ================================================================ claims
RECURSIVE Concat(_)
Concat(ss) == IF ss = <<>> THEN <<>> ELSE Head(ss) \o Concat(Tail(ss))

CeilDiv(n, c) == (n + c - 1) \div c

\* C3: for a session list of length N and chunk size C >= 1 the partition has
\* ceil(N/C) chunks, every chunk but the last has exactly C sessions, the last
\* has between 1 and C, and the chunks concatenated in index order give back
\* the input list.
C3_Partition ==
    pc # "start" =>
        /\ Len(chunks) = CeilDiv(Len(sessions_json), chunk_size)
        /\ \A k \in 1..(Len(chunks) - 1) : Len(chunks[k]) = chunk_size
        /\ Len(chunks) > 0 => Len(chunks[Len(chunks)]) \in 1..chunk_size
        /\ Concat(chunks) = sessions_json

C3_Witness ==
    /\ pc # "start"
    /\ Len(chunks) >= 2
    /\ Len(chunks[Len(chunks)]) < chunk_size
    /\ \E i, k \in 1..Len(sessions_json) : sessions_json[i] # sessions_json[k]

Range(seq) == {seq[i] : i \in 1..Len(seq)}

\* chunk ids handed to the worker pool whose run exists
PoolRuns ==
    {c \in DOMAIN job : c # 1 /\ job[c].status \in {"running", "caught", "done", "raised"}}

Analyses == {"traffic_engagement_analysis", "user_journey_analysis",
             "device_location_analysis"}

\* C1: in a run with more than one chunk no chunk handed to the worker pool
\* executes the column recommendation stage, and the column recommendation its
\* stages read is the one the primary chunk produced.
C1_ColumnsOnlyFromPrimary ==
    \A c \in PoolRuns :
        /\ ColumnNode \notin Range(job[c].trace)
        /\ job[c].state.column_recommendations = column_recommendations

\* C2: after the journey stage of a pool chunk failed with a rate-limit error
\* and was retried, the resumed attempt does not execute the traffic stage, and
\* at its end the traffic analysis equals the one held before the failure.
C2_ResumeKeepsTraffic ==
    \A c \in PoolRuns :
        (/\ job[c].status \in {"running", "done"}
         /\ job[c].attempt > 0
         /\ job[c].failed # None
         /\ job[c].failed.node = JourneyNode)
        => /\ TrafficNode \notin Range(job[c].trace)
           /\ job[c].status = "done" =>
                  job[c].state.traffic_engagement_analysis =
                      job[c].failed.state.traffic_engagement_analysis

\* C4: the entry point never raises; when it ends it has returned a pair
\* (state, report text).
C4_NeverRaises ==
    /\ pc # "raised"
    /\ pc = "returned" => DOMAIN returned = {"state", "report"}

\* C5: a permanent failure of a pool chunk does not abort the batch: once the
\* collection loop is left every pool future has been consumed, the results
\* are those of the primary chunk and of exactly the pool chunks that
\* succeeded, and the run goes on through aggregation and final orchestration
\* (the error path is entered only after aggregation ran, and a normal report
\* is returned only after final orchestration ran).
C5_FailureDoesNotAbort ==
    (/\ pc \notin {"start", "primary", "pool"}
     /\ \E c \in DOMAIN job : job[c].status = "dropped")
    => /\ \A c \in DOMAIN job : c # 1 => job[c].status \in {"collected", "dropped"}
       /\ Len(all_chunk_results) =
              1 + Cardinality({c \in DOMAIN job : job[c].status = "collected"})
       /\ {all_chunk_results[i].all_sessions : i \in 1..Len(all_chunk_results)} =
              {chunks[c] : c \in {d \in DOMAIN job : d = 1 \/ job[d].status = "collected"}}
       /\ pc # "aggregate" => aggregated_results # None
       /\ pc = "report" => final_state # None
       /\ (pc = "returned" /\ returned.report.doc = "analysis_report") =>
              final_state # None

C5_Witness ==
    /\ pc = "returned"
    /\ returned.report.doc = "analysis_report"
    /\ num_chunks = 3
    /\ \E c, d \in DOMAIN job : job[c].status = "dropped" /\ job[d].status = "collected"
    /\ Len(all_chunk_results) = 2

\* C6: every harvested chunk result has a non-null traffic, journey and device
\* analysis, also after a retry that resumed at a later stage.
C6_HarvestedAnalysesNonNull ==
    \A i \in 1..Len(all_chunk_results) :
        \A a \in Analyses : all_chunk_results[i][a] # None

\* stage output field and its defaults, per node
OutputField(node) ==
    CASE node = ColumnNode -> "column_recommendations"
      [] node = TrafficNode -> "traffic_engagement_analysis"
      [] node = JourneyNode -> "user_journey_analysis"
      [] node = DeviceNode -> "device_location_analysis"
      [] node = OrchestratorNode -> "final_report"

AnalysisNodes == {TrafficNode, JourneyNode, DeviceNode}

AnalysisDefaults(node) ==
    CASE node = TrafficNode ->
             [summary |-> "No summary provided", key_metrics |-> EmptyDict,
              findings |-> EmptyList]
      [] node = JourneyNode ->
             [summary |-> "No summary provided", journey_maps |-> EmptyList,
              path_patterns |-> EmptyList, conversion_insights |-> EmptyList]
      [] node = DeviceNode ->
             [summary |-> "No summary provided", device_breakdown |-> EmptyDict,
              location_insights |-> EmptyList, browser_stats |-> EmptyDict]

\* C7: every traffic, journey and device output written into a state has a
\* non-null value for every required field, whatever was extracted; after a
\* response without '{' the output holds every default and the run has moved on
\* to the next stage.
C7_OutputsNeverNull ==
    \A c \in DOMAIN job :
        job[c].state # None =>
            /\ \A n \in AnalysisNodes :
                   job[c].state[OutputField(n)] # None =>
                       \A k \in Range(RequiredKeys(n)) :
                           /\ k \in DOMAIN job[c].state[OutputField(n)]
                           /\ job[c].state[OutputField(n)][k] # JsonNull
            /\ (/\ job[c].status \in {"running", "done"}
                /\ job[c].trace # <<>>
                /\ job[c].trace[Len(job[c].trace)] \in AnalysisNodes
                /\ find(job[c].response, OpenBrace) = -1)
               => LET n == job[c].trace[Len(job[c].trace)]
                  IN /\ job[c].state[OutputField(n)] = AnalysisDefaults(n)
                     /\ job[c].node = Successor(job[c].app, n)

AggKinds == <<"traffic_engagement_analysis", "user_journey_analysis",
              "device_location_analysis">>

AggDefault(i) ==
    CASE i = 1 -> TrafficAggDefault [] i = 2 -> JourneyAggDefault [] i = 3 -> DeviceAggDefault

\* C8: given k >= 1 chunk results the aggregator issues its three calls and
\* returns exactly three analyses; a kind whose response does not extract is
\* replaced by its named default, and every other kind is what was extracted
\* from its own response.
C8_AggregatorDegradesPerKind ==
    /\ aggregated_results = None <=> gemini_responses = <<>>
    /\ gemini_responses # <<>> =>
          /\ Len(all_chunk_results) \in 1..num_chunks
          /\ Len(gemini_responses) = 3
          /\ DOMAIN aggregated_results = Range(AggKinds)
          /\ \A i \in 1..3 :
                LET extracted == extract_json_from_text(gemini_responses[i])
                IN aggregated_results[AggKinds[i]] =
                       IF extracted = EmptyMapping THEN AggDefault(i) ELSE extracted

C8_Witness ==
    /\ gemini_responses # <<>>
    /\ Len(all_chunk_results) = 2
    /\ num_chunks = 3
    /\ aggregated_results.traffic_engagement_analysis = TrafficAggDefault
    /\ aggregated_results.user_journey_analysis =
           extract_json_from_text(FullText(JourneyKeys))
    /\ aggregated_results.device_location_analysis # DeviceAggDefault

\* C9: with exactly one chunk there is no fan-out, no aggregation completion
\* call is issued, and the report returned is the primary chunk's own
\* orchestration output.
C9_SingleChunkSkipsAggregation ==
    num_chunks = 1 =>
        /\ harvested = {}
        /\ gemini_calls = 0
        /\ (pc = "returned" /\ returned.report.doc = "analysis_report")
               => returned.report.body = job[1].state.final_report

StageName(node) ==
    CASE node = ColumnNode -> "column_recommendation"
      [] node = TrafficNode -> "traffic_engagement"
      [] node = JourneyNode -> "user_journey"
      [] node = DeviceNode -> "device_location"
      [] node = OrchestratorNode -> "orchestrator"

StageIndex(node) ==
    CASE node = ColumnNode -> 0
      [] node = TrafficNode -> 1
      [] node = JourneyNode -> 2
      [] node = DeviceNode -> 3
      [] node = OrchestratorNode -> 4

\* C10: the error of a stage that raised carries the name of that stage and of
\* no other stage, and the retry wrapper resolves it to the index of that stage.
C10_ErrorNamesFailedStage ==
    \A c \in DOMAIN job :
        (job[c].status \in {"caught", "raised"} /\ job[c].failed # None)
        => /\ job[c].error \cap {StageName(n) : n \in Nodes} =
                  {StageName(job[c].failed.node)}
           /\ ResumeIndex(job[c].error, 0) = StageIndex(job[c].failed.node)

\* acquisitions recorded within the last 60 seconds
WindowCalls == PruneCalls(call_timestamps, clock)

\* C11: a call that found max_calls_per_minute acquisitions recorded in the
\* current window does not return before the oldest of them is at least 60
\* seconds old.
C11_BlocksUntilOldestAgesOut ==
    (last_return # None /\ last_return.oldest # -1)
    => last_return.at - last_return.oldest >= WINDOW

\* two requests at time 0 with a maximum of 2, the third returns at 61
C11_Witness ==
    /\ max_calls_per_minute = 2
    /\ last_return # None
    /\ last_return.oldest = 0
    /\ last_return.at = WINDOW + 1
    /\ Len(call_timestamps) = 2

InCall == {t \in Threads : caller[t].pc # "idle"}

\* C12: at most one thread is between entering and leaving wait_if_needed,
\* that thread holds the lock from its pruning to its recording, and the
\* number of acquisitions recorded within the last 60 seconds never exceeds
\* max_calls_per_minute.
C12_CriticalSectionAndWindow ==
    /\ Cardinality(InCall) <= 1
    /\ \A t \in Threads : caller[t].pc # "idle" <=> lock = t
    /\ Len(WindowCalls) <= max_calls_per_minute

\* one thread sleeps inside the call with the window full, the other waits
C12_Witness ==
    /\ \E t \in Threads : caller[t].pc = "sleep_request" /\ lock = t
    /\ Len(WindowCalls) = max_calls_per_minute
    /\ max_calls_per_minute = 2
    /\ clock > 0

\* C13: when wait_if_needed(estimated_tokens) has just returned, the token
\* estimates recorded within the last 60 seconds, the caller's own included,
\* sum to at most tokens_per_minute.
C13_NoCallerProceedsOverBudget ==
    (last_return # None /\ last_return.at = clock)
    => SumTokens(PruneUsage(token_usage, clock)) <= tokens_per_minute

Members == {tok \in Tokens : Len(tok) = 2}

IsMapping(m) ==
    /\ DOMAIN m \subseteq {tok[1] : tok \in Members}
    /\ \A k \in DOMAIN m : m[k] \in {tok[2] : tok \in Members}

\* C19: a call of the extractor does not raise and returns a mapping; the
\* mapping is empty when the text has no '{', when it has no '}', when its
\* last '}' is before its first '{', and when the substring from the first
\* '{' to the last '}' does not decode.
C19_ExtractorNeverRaises ==
    extract_outcome # None =>
        LET first == find(text_arg, OpenBrace)
            last == rfind(text_arg, CloseBrace)
        IN /\ ~extract_outcome.raised
           /\ IsMapping(extract_outcome.value)
           /\ (\/ first = -1
               \/ last = -1
               \/ last < first
               \/ ~Decodable(slice(text_arg, first, last + 1)))
              => extract_outcome.value = EmptyMapping

\* a text whose last '}' comes before its first '{'
C19_Witness ==
    /\ extract_outcome # None
    /\ rfind(text_arg, CloseBrace) # -1
    /\ rfind(text_arg, CloseBrace) < find(text_arg, OpenBrace)
    /\ extract_outcome.value = EmptyMapping

\* C14: when an attempt of a pool chunk failed with an error without the
\* rate-limit marker, the next step of its wrapper propagates the error: no
\* sleep, no further analyze_chunk call; and a chunk whose wrapper raised
\* adds nothing to the results when its future is consumed.
C14_NoRetryWithoutMarker ==
    [][\A c \in DOMAIN job :
          (c \in DOMAIN job' /\ job'[c] # job[c]) =>
              /\ (job[c].status = "caught" /\ ~RateLimited(job[c].error))
                 => /\ job'[c].status = "raised"
                    /\ job'[c].slept = job[c].slept
                    /\ job'[c].invocations = job[c].invocations
                    /\ job'[c].error = job[c].error
              /\ job[c].status = "raised"
                 => /\ job'[c].status = "dropped"
                    /\ all_chunk_results' = all_chunk_results]_vars

\* the first attempt of a pool chunk failed without the marker and the
\* wrapper raised after that one attempt
C14_Witness ==
    \E c \in DOMAIN job :
        /\ c # 1
        /\ job[c].status = "raised"
        /\ ~RateLimited(job[c].error)
        /\ job[c].invocations = 1
        /\ job[c].slept = <<>>

\* every completion call made so far raised an error without the marker: the
\* first call of a run is the column stage of the primary chunk
AllCallsFailed ==
    /\ pc # "start"
    /\ num_chunks >= 1
    /\ job[1].status = "raised"
    /\ job[1].trace = <<ColumnNode>>
    /\ ~RateLimited(job[1].error)

\* C15: when every completion call raises an error without the rate-limit
\* marker, no chunk is attempted twice, the entry point does not raise, and
\* when it has returned it has gone through every chunk and returned a pair
\* (state, report).
C15_AlwaysFailingStillReports ==
    AllCallsFailed =>
        /\ \A c \in DOMAIN job : job[c].invocations <= 1
        /\ pc # "raised"
        /\ pc = "returned" =>
               /\ DOMAIN returned = {"state", "report"}
               /\ harvested = 2..num_chunks

\* C16: no chunk is given more than max_retries + 1 analyze_chunk calls; a
\* wrapper that raised a rate-limit error has made exactly max_retries + 1
\* calls and slept max_retries times.
C16_RetryBounded ==
    \A c \in DOMAIN job :
        /\ job[c].invocations <= max_retries + 1
        /\ (c # 1 /\ job[c].status = "raised" /\ RateLimited(job[c].error))
           => /\ job[c].invocations = max_retries + 1
              /\ Len(job[c].slept) = max_retries

C16_Witness ==
    \E c \in DOMAIN job :
        /\ c # 1
        /\ job[c].status = "raised"
        /\ RateLimited(job[c].error)
        /\ job[c].invocations = 4
        /\ job[c].slept = <<5, 10, 20>>

\* C17: a chunk other than the primary one is submitted, started or finished
\* only after the primary chunk has completed its five stages; the primary
\* chunk is never queued for a worker nor under the retry wrapper, and it runs
\* while the calling thread is at line 372.
C17_PrimaryIsBarrier ==
    pc # "start" /\ num_chunks >= 1 =>
        /\ \A c \in DOMAIN job :
               (c # 1 /\ job[c].status # "idle")
               => job[1].status = "done" /\ job[1].trace = AllStages
        /\ job[1].status \in {"running", "done", "raised"}
        /\ job[1].status = "running" => pc = "primary"

C17_Witness ==
    /\ pc = "pool"
    /\ job[1].trace = AllStages
    /\ \E c \in DOMAIN job : c # 1 /\ job[c].status = "running" /\ job[c].trace # <<>>
    /\ \E c \in DOMAIN job : c # 1 /\ job[c].status = "pending"

IsPrefix(s, t) == Len(s) <= Len(t) /\ \A i \in 1..Len(s) : s[i] = t[i]

\* pipeline runs under way or ended that started at the column stage
TopRuns ==
    {c \in DOMAIN job :
        /\ job[c].status \in {"running", "caught", "done", "raised"}
        /\ Successor(job[c].app, START) = ColumnNode}

\* C18: in a run that starts from the top the stages executed so far are a
\* prefix of column, traffic, journey, device, orchestration; the stage about
\* to run is the one after the last that returned; a finished run executed
\* all five; a run that raised stopped at the stage that raised.
C18_FixedStageOrder ==
    \A c \in TopRuns :
        /\ IsPrefix(job[c].trace, AllStages)
        /\ job[c].status = "running" => job[c].node = AllStages[Len(job[c].trace) + 1]
        /\ job[c].status = "done" => job[c].trace = AllStages
        /\ job[c].status \in {"caught", "raised"}
           => /\ job[c].trace # <<>>
              /\ job[c].node = job[c].trace[Len(job[c].trace)]
              /\ job[c].failed.node = job[c].node

C18_Witness ==
    /\ job # <<>>
    /\ job[1].status = "done"
    /\ job[1].trace = AllStages
    /\ \E c \in TopRuns :
          /\ job[c].status = "raised"
          /\ job[c].trace = <<ColumnNode, TrafficNode, JourneyNode>>

\* C20: at the start of a retry that resumes at stage index i, every output
\* that a stage before i had produced in the failed attempt is in the state
\* of the new attempt.
C20_RetryKeepsState ==
    \A c \in PoolRuns :
        (/\ job[c].status = "running"
         /\ job[c].trace = <<>>
         /\ job[c].attempt > 0
         /\ job[c].failed # None)
        => \A n \in Nodes :
               (/\ StageIndex(n) < job[c].current_agent_index
                /\ job[c].failed.state[OutputField(n)] # None)
               => job[c].state[OutputField(n)] = job[c].failed.state[OutputField(n)]

\* the stages from index i to orchestration
StagesFrom(i) == SubSeq(AllStages, i + 1, Len(AllStages))

\* C21: a pipeline built to resume at stage s (traffic, journey, device or
\* orchestration) executes the stages from s to orchestration in pipeline
\* order, each once, and no stage that precedes s: what a run has executed is
\* a prefix of that list, the stage about to run is the next of the list, and
\* a run that ended without raising executed the whole list.
C21_ResumeRunsFromStage ==
    \A c \in DOMAIN job :
        (job[c].status \in {"running", "done", "caught", "raised"}
         /\ job[c].current_agent_index >= 1)
        => LET expected == StagesFrom(job[c].current_agent_index)
           IN /\ job[c].app = build_custom_graph(agents_order[job[c].current_agent_index + 1])
              /\ IsPrefix(job[c].trace, expected)
              /\ job[c].status = "running" => job[c].node = expected[Len(job[c].trace) + 1]
              /\ job[c].status = "done" => job[c].trace = expected

\* a run resumed at the journey stage ended after journey, device, orchestration
C21_Witness ==
    \E c \in DOMAIN job :
        /\ job[c].status = "done"
        /\ job[c].current_agent_index = 2
        /\ job[c].trace = <<JourneyNode, DeviceNode, OrchestratorNode>>

C23_BackoffSchedule ==
    \A c \in DOMAIN job :
        /\ IsPrefix(job[c].slept, <<5, 10, 20>>)
        /\ \A i \in 1..Len(job[c].slept) : job[c].slept[i] = BACKOFF_BASE * Pow2(i - 1)
        /\ Len(job[c].slept) = job[c].attempt
        /\ job[c].invocations >= 1 => Len(job[c].slept) = job[c].invocations - 1
        /\ Len(job[c].slept) <= max_retries

\* the fourth attempt failed with a rate-limit error: three sleeps, no fourth
C23_Witness ==
    \E c \in DOMAIN job :
        /\ job[c].status = "raised"
        /\ RateLimited(job[c].error)
        /\ job[c].attempt = max_retries
        /\ job[c].slept = <<5, 10, 20>>
        /\ job[c].invocations = 4

\* pool chunks whose result was appended to the results
Collected == {c \in DOMAIN job : job[c].status = "collected"}

\* pool futures that finished and are not yet consumed
Unconsumed == {c \in DOMAIN job : c # 1 /\ job[c].status \in {"done", "raised"}}

C25_AggregationThenOneOrchestration ==
    [][num_chunks' > 1 =>
          /\ (pc = "pool" /\ pc' # "pool") => pc' = "aggregate"
          /\ pc = "aggregate" =>
                 /\ pc' = "orchestrate"
                 /\ gemini_responses = <<>>
                 /\ Len(gemini_responses') = 3
                 /\ Len(all_chunk_results) = 1 + Cardinality(Collected)
                 /\ aggregated_results' # None
          /\ pc = "orchestrate" =>
                 /\ pc' \in {"report", "except"}
                 /\ final_state = None
                 /\ pc' = "report" => final_state' # None
                 /\ gemini_responses' = gemini_responses
          /\ pc \in {"report", "except", "returned", "raised"} =>
                 /\ pc' \notin {"pool", "aggregate", "orchestrate"}
                 /\ gemini_responses' = gemini_responses
                 /\ final_state' = final_state]_vars

\* 3 sessions in sample mode: 2 chunks, aggregation of k = 2 results, then
\* the final orchestration returned
C25_Witness ==
    /\ Len(sessions_json) = 3
    /\ chunk_size = 2
    /\ num_chunks = 2
    /\ pc = "report"
    /\ Len(all_chunk_results) = 2
    /\ Len(gemini_responses) = 3
    /\ final_state # None

AggNodes == <<TrafficNode, JourneyNode, DeviceNode>>

\* C26: every analysis returned by the aggregator has every required key of
\* its kind, also when the extracted mapping is non-empty and lacks some of
\* them.
C26_AggregatedAnalysesComplete ==
    aggregated_results # None =>
        \A i \in 1..Len(AggKinds) :
            Range(RequiredKeys(AggNodes[i])) \subseteq DOMAIN aggregated_results[AggKinds[i]]

\* pool chunks that a worker is processing, backoff sleeps included
Busy(j) == {c \in DOMAIN j : c # 1 /\ j[c].status \in {"running", "caught"}}

C28_TokenWaitResetsWindows ==
    [][\A t \in Threads :
          /\ (caller[t].pc # "sleep_tokens" /\ caller'[t].pc = "sleep_tokens")
             => /\ SumTokens(PruneUsage(token_usage, clock))
                       + caller'[t].estimated_tokens > tokens_per_minute
                /\ caller'[t].wake = clock + 60
                /\ lock' = t
          /\ (caller[t].pc = "sleep_tokens" /\ caller'[t] # caller[t])
             => /\ clock >= caller[t].wake
                /\ caller'[t].pc = "idle"
                /\ lock' = NoThread
                /\ call_timestamps' = <<clock>>
                /\ token_usage' = <<[ts |-> clock, tokens |-> caller[t].estimated_tokens]>>
                /\ last_return'.token_wait
          /\ (caller[t].pc = "sleep_tokens" /\ caller'[t] = caller[t])
             => /\ call_timestamps' = call_timestamps
                /\ token_usage' = token_usage
          /\ (/\ caller[t].pc \in {"idle", "sleep_request"}
              /\ lock' = NoThread
              /\ lock \in {t, NoThread}
              /\ last_return' # last_return)
             => SumTokens(PruneUsage(token_usage, clock)) + last_return'.tokens
                    <= tokens_per_minute]_vars

\* a call within the budget on its own waited because of an earlier entry,
\* and has just returned after the windows were emptied
C28_Witness ==
    /\ last_return # None
    /\ last_return.token_wait
    /\ last_return.at = clock
    /\ last_return.tokens <= tokens_per_minute
    /\ call_timestamps = <<clock>>
    /\ token_usage = <<[ts |-> clock, tokens |-> last_return.tokens]>>

\* the name a stage writes into current_agent (line 23 or 25 of each agent)
AgentName(node) ==
    CASE node = ColumnNode -> "Column Recommendation Agent"
      [] node = TrafficNode -> "Traffic and Engagement Analysis Agent"
      [] node = JourneyNode -> "User Journey and Navigation Agent"
      [] node = DeviceNode -> "Device and Location Analysis Agent"
      [] node = OrchestratorNode -> "Orchestrator Agent"

\* C29: every stage writes its own name into the current-stage marker before
\* its completion call: after a stage returned the marker is its name, after
\* a stage raised (its completion call included) the marker is the name of
\* the stage that raised, and after a complete run it is the name of the
\* orchestration stage.
C29_MarkerNamesStage ==
    \A c \in DOMAIN job :
        /\ (job[c].status \in {"running", "done"} /\ job[c].trace # <<>>)
           => job[c].state.current_agent = AgentName(job[c].trace[Len(job[c].trace)])
        /\ job[c].status \in {"caught", "raised"}
           => /\ job[c].failed.node = job[c].trace[Len(job[c].trace)]
              /\ job[c].state.current_agent = AgentName(job[c].failed.node)
        /\ job[c].status = "done"
           => job[c].state.current_agent = "Orchestrator Agent"

\* the completion call of the traffic stage raised after the column stage had
\* returned: the marker is the traffic stage's, not the column stage's
C29_Witness ==
    \E c \in DOMAIN job :
        /\ job[c].status = "raised"
        /\ job[c].trace = <<ColumnNode, TrafficNode>>
        /\ RateLimited(job[c].error)
        /\ job[c].failed.state.current_agent = "Column Recommendation Agent"
        /\ job[c].state.current_agent = "Traffic and Engagement Analysis Agent"

\* what the column stage stored
Recs(c) == job[c].state.column_recommendations

\* the mapping extracted from the response of the column stage
ColumnPayload(c) == extract_json_from_text(job[c].response)

\* C30: after the column stage returned, when the extracted payload is empty
\* or its traffic column list is missing, empty or null, the three lists are
\* the hardcoded defaults, whatever journey and device lists the payload
\* held; otherwise the traffic list is the extracted one and a missing
\* journey or device list is the empty list; the recommendation is never null.
C30_ColumnFallback ==
    \A c \in DOMAIN job :
        (job[c].status = "running" /\ job[c].trace = <<ColumnNode>>)
        => LET payload == ColumnPayload(c)
               unusable ==
                   \/ payload = EmptyMapping
                   \/ "traffic_engagement_columns" \notin DOMAIN payload
                   \/ payload["traffic_engagement_columns"] \in {EmptyList, JsonNull}
           IN /\ Recs(c) # None
              /\ DOMAIN Recs(c) = Range(ColumnKeys)
              /\ unusable => Recs(c) = DefaultColumns
              /\ ~unusable =>
                     \A k \in Range(ColumnKeys) :
                         Recs(c)[k] = IF k \in DOMAIN payload THEN payload[k] ELSE EmptyList

\* the payload held usable journey and device lists and an empty traffic list
C30_Witness ==
    \E c \in DOMAIN job :
        /\ job[c].status = "running"
        /\ job[c].trace = <<ColumnNode>>
        /\ Get(ColumnPayload(c), "traffic_engagement_columns", "absent") = EmptyList
        /\ Get(ColumnPayload(c), "user_journey_columns", "absent") = "v"
        /\ Get(ColumnPayload(c), "device_location_columns", "absent") = "v"
        /\ Recs(c) = DefaultColumns

\* the columns of a list that have no dot
Undotted(columns) == \A i \in 1..Len(columns) : Len(columns[i]) = 1

\* C31: for a list of undotted column names the projection returns one
\* record per session, in the same order, and each record holds exactly the
\* listed columns that the session has, with the session's values; a listed
\* column that the session lacks is left out and raises nothing.
C31_ProjectionOfPlainColumns ==
    (filtered_sessions # None /\ Undotted(columns_arg)) =>
        /\ ~filtered_sessions.raised
        /\ Len(filtered_sessions.value) = Len(sessions_arg)
        /\ \A i \in 1..Len(sessions_arg) :
               /\ DOMAIN filtered_sessions.value[i] =
                      {columns_arg[k][1] : k \in 1..Len(columns_arg)}
                          \cap DOMAIN sessions_arg[i]
               /\ \A c \in DOMAIN filtered_sessions.value[i] :
                      filtered_sessions.value[i][c] = sessions_arg[i][c]

\* two different sessions, the columns a, b and hits: b is in neither session
C31_Witness ==
    /\ filtered_sessions # None
    /\ Len(sessions_arg) = 2
    /\ sessions_arg[1] # sessions_arg[2]
    /\ DOMAIN sessions_arg[1] = {"a", "hits"}
    /\ columns_arg = <<<<"a">>, <<"b">>, <<"hits">>>>
    /\ DOMAIN filtered_sessions.value[1] = {"a", "hits"}

\* C32: for every listed dotted column parent.child whose parent is a list in
\* the session, the parent list of the projected record holds the child value
\* of every element that has that key, also when several dotted columns of
\* the list have the same parent.
C32_DottedColumnsAllKept ==
    filtered_sessions # None =>
        \A i \in 1..Len(sessions_arg), k \in 1..Len(columns_arg) :
            LET col == columns_arg[k]
                session == sessions_arg[i]
            IN (/\ Len(col) = 2
                /\ col[1] \in DOMAIN session
                /\ session[col[1]].kind = "list")
               => /\ col[1] \in DOMAIN filtered_sessions.value[i]
                  /\ filtered_sessions.value[i][col[1]].kind = "list"
                  /\ \A j \in 1..Len(session[col[1]].items) :
                         col[2] \in DOMAIN session[col[1]].items[j]
                         => \E e \in 1..Len(filtered_sessions.value[i][col[1]].items) :
                                LET entry == filtered_sessions.value[i][col[1]].items[e]
                                IN /\ col[2] \in DOMAIN entry
                                   /\ entry[col[2]] = session[col[1]].items[j][col[2]]

\* the final orchestration has produced the report of the extraction failure
ErrorShapedFinal ==
    /\ pc = "report"
    /\ final_state # None
    /\ final_state.final_report = ErrorShapedReport

\* C33: when the extraction of the final orchestration response returns the
\* empty mapping, the final report is the error-shaped default (five fields
\* that are not null, an empty action plan), rendering it succeeds, and the
\* top-level call returns the normal pair (state, report), not the error
\* report.
C33_EmptyExtractionReportsNormally ==
    [][/\ \A text \in FinalTexts :
             extract_json_from_text(text) = EmptyMapping
             => \A st \in {minimal_state} :
                    orchestrator_agent(st, Returns(text)).state.final_report
                        = ErrorShapedReport
       /\ ErrorShapedFinal
          => /\ \A i \in 1..Len(ReportKeys) :
                    final_state.final_report[ReportKeys[i]] # JsonNull
             /\ final_state.final_report.prioritized_action_plan = EmptyList
             /\ ~RenderRaises(final_state.final_report)
             /\ pc' # pc
                => /\ pc' = "returned"
                   /\ returned'.state = final_state
                   /\ returned'.report = generate_markdown_report(ErrorShapedReport)]_vars

\* C35: when the top-level call ends on its failure path it persists the
\* error report and not the normal report, and returns the error report with
\* a minimal state: no sessions, and the column recommendation, the three
\* analyses, the final report and the current-stage marker all null.
C35_FailurePathReturnsErrorReport ==
    [][pc = "except"
       => \/ pc' = "except"
          \/ /\ pc' = "returned"
             /\ \E f \in files' : f.content.doc = "error_report"
             /\ \A f \in files' : f.content.doc # "analysis_report"
             /\ returned'.report.doc = "error_report"
             /\ returned'.report \in {f.content : f \in files'}
             /\ returned'.state.all_sessions = <<>>
             /\ returned'.state.column_recommendations = None
             /\ returned'.state.traffic_engagement_analysis = None
             /\ returned'.state.user_journey_analysis = None
             /\ returned'.state.device_location_analysis = None
             /\ returned'.state.final_report = None
             /\ returned'.state.current_agent = NoneStr]_vars

\* C36: when the primary chunk fails in a stage, with a rate-limit error or
\* any other, it has been analysed once, no other chunk is dispatched, no
\* aggregation call and no final orchestration is made, and the run goes to
\* the outermost handler: no normal report is written or returned.
C36_PrimaryFailureEndsRun ==
    (pc # "start" /\ num_chunks >= 1 /\ job[1].status = "raised")
    => /\ job[1].invocations = 1
       /\ job[1].attempt = 0
       /\ \A c \in DOMAIN job : c # 1 => job[c] = IdleJob
       /\ harvested = {}
       /\ gemini_calls = 0
       /\ aggregated_results = None
       /\ final_state = None
       /\ pc \in {"primary", "except", "returned", "raised"}
       /\ pc # "primary" => error = job[1].error
       /\ \A f \in files : f.content.doc = "error_report"
       /\ pc = "returned" => returned.report = emergency_report(job[1].error)

\* a run of two chunks whose primary chunk failed in its traffic stage with a
\* rate-limit error and which returned the error report
C36_Witness ==
    /\ num_chunks = 2
    /\ job[1].status = "raised"
    /\ job[1].trace = <<ColumnNode, TrafficNode>>
    /\ RateLimited(job[1].error)
    /\ pc = "returned"

QueryEnded == query # None /\ query.pc \in {"returned", "raised"}

\* C34 as stated: one call of query_mistral performs exactly one acquire on
\* the limiter, then at most one completion call, and an error raised by that
\* call reaches the caller unchanged.
C34_OneAcquireOneCall ==
    /\ QueryEnded => Len(query.acquires) = 1
    /\ query # None =>
           /\ query.completions <= 1
           /\ query.completions = 1 => Len(query.acquires) = 1
           /\ (query.pc = "raised" /\ query.completions = 1)
              => query.raised_error = query.api_error

\* C34 as amended: one call of query_mistral performs at most one acquire on
\* the limiter, and exactly one unless building the client raised (no API
\* key), in which case it performs none and makes no completion call; it
\* makes at most one completion call, after the acquire, and an error raised
\* by that call reaches the caller unchanged.
C34_NoRetry ==
    query # None =>
        /\ Len(query.acquires) <= 1
        /\ query.completions <= 1
        /\ query.completions = 1 => Len(query.acquires) = 1
        /\ QueryEnded =>
               IF query.api_key
               THEN /\ Len(query.acquires) = 1
                    /\ query.completions = 1
                    /\ query.pc = "raised" => /\ query.api_error # {}
                                              /\ query.raised_error = query.api_error
                    /\ query.pc = "returned" => /\ query.api_error = {}
                                                /\ query.raised_error = {}
               ELSE /\ Len(query.acquires) = 0
                    /\ query.completions = 0
                    /\ query.pc = "raised"
                    /\ query.raised_error = {"ValueError"}

\* a call with two messages whose completion call raised a rate-limit error
C34_Witness ==
    /\ query # None
    /\ query.api_key
    /\ Len(query.messages) = 2
    /\ query.pc = "raised"
    /\ query.completions = 1
    /\ query.acquires = <<estimate_tokens(query.messages)>>
    /\ RateLimited(query.raised_error)

CallRaised(c) ==
    /\ job[c].status \in {"caught", "raised"}
    /\ job[c].failed # None
    /\ \E e \in ApiErrors : e \subseteq job[c].error

\* C38: when the completion call of a stage raises, the stage has changed no
\* output field of the state (column recommendation, the three analyses,
\* final report) and has appended nothing to the message log; the only field
\* it has changed is the current-stage marker.
C38_FailedStageLeavesState ==
    \A c \in DOMAIN job :
        CallRaised(c)
        => LET before == job[c].failed.state
               after == job[c].state
           IN /\ after.column_recommendations = before.column_recommendations
              /\ after.traffic_engagement_analysis = before.traffic_engagement_analysis
              /\ after.user_journey_analysis = before.user_journey_analysis
              /\ after.device_location_analysis = before.device_location_analysis
              /\ after.final_report = before.final_report
              /\ after.messages = before.messages
              /\ after = [before EXCEPT !.current_agent = AgentName(job[c].failed.node)]

\* the journey stage of a run from the top raised a rate-limit error after
\* the column and traffic stages had written their outputs
C38_Witness ==
    \E c \in DOMAIN job :
        /\ CallRaised(c)
        /\ job[c].failed.node = JourneyNode
        /\ job[c].trace = <<ColumnNode, TrafficNode, JourneyNode>>
        /\ RateLimited(job[c].error)
        /\ job[c].state.traffic_engagement_analysis # None
        /\ job[c].state.user_journey_analysis = None
        /\ job[c].state.messages = 3
        /\ job[c].failed.state.current_agent # job[c].state.current_agent

Asleep(t) == caller[t].pc \in {"sleep_request", "sleep_tokens"}

\* C39: the limiter holds its lock while it sleeps: while one thread waits
\* inside wait_if_needed, for the request count or for the 60 seconds of the
\* token wait, no other thread enters or returns from wait_if_needed; the
\* next return is that of the sleeping thread, after its wake time.
C39_SleepHoldsLock ==
    [][\A t \in Threads :
          Asleep(t)
          => /\ lock = t
             /\ \A u \in Threads \ {t} : caller[u].pc = "idle" /\ caller'[u] = caller[u]
             /\ lock' \in {t, NoThread}
             /\ last_return' # last_return
                => /\ clock >= caller[t].wake
                   /\ caller'[t].pc = "idle"
                   /\ last_return'.at = clock
                   /\ last_return'.tokens = caller[t].estimated_tokens]_vars

\* a thread is half way through its token sleep and holds the lock
C39_Witness ==
    \E t \in Threads :
        /\ caller[t].pc = "sleep_tokens"
        /\ lock = t
        /\ clock > caller[t].wake - WINDOW
        /\ clock < caller[t].wake
        /\ last_return # None

\* C40: with a fair lock and max_calls_per_minute >= 1, every call of
\* wait_if_needed returns, whatever the other thread does and whatever the
\* estimates are: a thread that has called, blocked at the lock or asleep
\* inside the call, is back out of the call later on.
C40_EveryCallReturns ==
    \A t \in Threads : (caller[t].pc # "idle") ~> (caller[t].pc = "idle")

\* a thread is blocked at the lock while the other one sleeps the token wait
\* with an estimate above the whole budget
C40_Witness ==
    \E t, u \in Threads :
        /\ caller[t].pc = "blocked"
        /\ caller[u].pc = "sleep_tokens"
        /\ lock = u
        /\ caller[u].estimated_tokens > tokens_per_minute
        /\ Len(call_timestamps) >= 1

====
